---- MODULE Spec2Model ----
(***************************************************************************)
(* Expense Tracker: the database layer (src/db/database.py), the tool and  *)
(* resource layer calling it (src/tools, src/resources, src/main.py).      *)
(*                                                                         *)
(* Representation of values                                                *)
(*   money      an integer number of cents (DECIMAL(12,2) / REAL holding a *)
(*              2-digit amount), so round(x, 2) keeps it                   *)
(*   percentage an integer number of tenths of a percent                   *)
(*   date       <<year, month, day>>; the code compares the zero-padded    *)
(*              text "YYYY-MM-DD", whose order is the order of the triple  *)
(*   timestamp  an integer number of seconds (the code keeps second        *)
(*              precision)                                                 *)
(*   None       "None" where a text is optional, <<>> where a date is      *)
(*              optional, NoRow where a row is optional                    *)
(*   returned   a row, NoRow, Bool(b) for a bool or List(s) for a list:    *)
(*              always a record, so that any two of them can be compared   *)
(***************************************************************************)
EXTENDS Integers, Sequences, FiniteSets, TLC

VARIABLES
    users,          \* table users: set of rows
    expenses,       \* table expenses: set of rows
    budgets,        \* table budgets: set of rows
    seq,            \* AUTOINCREMENT counters: [users, expenses, budgets]
    now,            \* the wall clock, in seconds
    ret,            \* the call made by the last step and what it returned
    solo,           \* the database of the run in which owner B calls nothing
    soloId,         \* expense id of the real run |-> id of the same row in solo
    calls,          \* the concurrent upsert_budget calls: position and locals
    lastCommit,     \* budget key |-> limit of the upsert that committed last
    main,           \* how far main.py got
    _DEFAULT_USER_ID,   \* resources.expense_resources._DEFAULT_USER_ID
    USE_MYSQL,      \* the engine: MySQL behind a pool, or the SQLite file
    schema,         \* the tables, the tables with a user_id column, and the
                    \* number of foreign keys of each on user_id
    inUse,          \* the connections counted as in use (the pool's, or the
                    \* open ones of the file): <<operation, segment>>
    ops,            \* the operations that take connections: position
    environ,        \* os.environ: name |-> text (a sequence of characters)
    _pool,          \* db.database._pool: the pool, or NoPool
    pools           \* the pools created and open

dbvars == <<users, expenses, budgets, seq>>
isovars == <<solo, soloId>>
concvars == <<calls, lastCommit>>
toolvars == <<main, _DEFAULT_USER_ID>>
poolvars == <<USE_MYSQL, schema, inUse, ops, environ, _pool, pools>>
vars == <<users, expenses, budgets, seq, now, ret, solo, soloId, calls,
          lastCommit, main, _DEFAULT_USER_ID, USE_MYSQL, schema, inUse, ops,
          environ, _pool, pools>>

(***************************************************************************)
(* Bounds of the model                                                     *)
(***************************************************************************)
MaxExpenses == 2    \* expense ids ever allocated
MaxTime == 1        \* seconds the clock advances
MaxCalls == 2       \* concurrent upsert_budget calls
MaxOps == 6         \* operations that take a connection
MaxGetters == 4     \* operations that call _get_pool before a pool exists

(***************************************************************************)
(* Values                                                                  *)
(***************************************************************************)
None == "None"
NoDate == <<>>
NoRow == [none |-> TRUE]
Bool(b) == [bool |-> b]
List(s) == [list |-> s]

\* What a call does: the database it leaves, the exception it raises ("" when
\* it returns) and the value it returns
Returns(d, v) == [db |-> d, exc |-> "", val |-> v]
Raises(d, e) == [db |-> d, exc |-> e, val |-> NoRow]

\* _pool = None
NoPool == 0

DEFAULT_API_KEY == "default-local-key"

\* The database as one value: what a statement reads and what it returns
DB == [users |-> users, expenses |-> expenses, budgets |-> budgets, seq |-> seq]

UserIds(d) == {u.id : u \in d.users}

\* dict(row) if row else None, for a query matching at most one row
FetchOne(rows) == IF rows = {} THEN NoRow ELSE CHOOSE r \in rows : TRUE

\* date comparison: the order of "YYYY-MM-DD" texts
DateLess(a, b) ==
    \/ a[1] < b[1]
    \/ a[1] = b[1] /\ a[2] < b[2]
    \/ a[1] = b[1] /\ a[2] = b[2] /\ a[3] < b[3]

DateLeq(a, b) == a = b \/ DateLess(a, b)

\* out[k] = v for every column: the values of the model are already the
\* portable ones (ISO text, float)
_serialise_row(row) == [k \in DOMAIN row |-> row[k]]

(***************************************************************************)
(* Backend detection.  A text of the environment is the sequence of its    *)
(* characters; a name that is not set is not in the domain of environ.     *)
(***************************************************************************)
UpperCase == <<"M", "Y", "S", "Q", "L", "I", "T", "E">>
LowerCase == <<"m", "y", "s", "q", "l", "i", "t", "e">>

\* str.lower(), on the letters the texts of the model are made of
lower(text) ==
    [i \in DOMAIN text |->
        IF \E k \in DOMAIN UpperCase : UpperCase[k] = text[i]
        THEN LowerCase[CHOOSE k \in DOMAIN UpperCase : UpperCase[k] = text[i]]
        ELSE text[i]]

\* os.getenv(name, default)
getenv(env, name, default) ==
    IF name \in DOMAIN env THEN env[name] ELSE default

\* _use_mysql comparing DB_BACKEND as it is written
_use_mysql_as_written(env) ==
    LET explicit == getenv(env, "DB_BACKEND", <<>>)
    IN  IF explicit = <<"m", "y", "s", "q", "l">> THEN TRUE
        ELSE IF explicit = <<"s", "q", "l", "i", "t", "e">> THEN FALSE
        ELSE "MYSQL_PASSWORD" \in DOMAIN env /\ env.MYSQL_PASSWORD # <<>>

\* bool(os.getenv("MYSQL_PASSWORD")) is False for None and for ""
_use_mysql(env) ==
    LET explicit == lower(getenv(env, "DB_BACKEND", <<>>))
    IN  IF explicit = <<"m", "y", "s", "q", "l">> THEN TRUE
        ELSE IF explicit = <<"s", "q", "l", "i", "t", "e">> THEN FALSE
        ELSE "MYSQL_PASSWORD" \in DOMAIN env /\ env.MYSQL_PASSWORD # <<>>

\* An environment that selects the engine: DB_BACKEND=mysql, or nothing set
EnvironOf(mysql) ==
    IF mysql THEN [DB_BACKEND |-> <<"m", "y", "s", "q", "l">>] ELSE <<>>

(***************************************************************************)
(* CRUD - users                                                            *)
(***************************************************************************)
\* INSERT INTO users; api_key is UNIQUE
create_user(d, name, email, api_key, t) ==
    LET lid == d.seq.users + 1
        row == [id |-> lid, name |-> name, email |-> email,
                api_key |-> api_key, created_at |-> t]
    IN  IF \E u \in d.users : u.api_key = api_key
        THEN Raises(d, "IntegrityError")
        ELSE Returns([d EXCEPT !.users = @ \cup {row}, !.seq.users = lid], row)

authenticate_user(d, api_key) ==
    LET row == FetchOne({u \in d.users : u.api_key = api_key})
    IN  IF row # NoRow THEN _serialise_row(row) ELSE NoRow

(***************************************************************************)
(* CRUD - expenses                                                         *)
(***************************************************************************)
\* ExpenseRow with the notes column left out of the INSERT
ExpenseRowWithoutNotes(lid, user_id, title, amount, category, date, notes, t) ==
    [id |-> lid, user_id |-> user_id, title |-> title, amount |-> amount,
     category |-> category, date |-> date, notes |-> None,
     created_at |-> t, updated_at |-> t]

\* The row INSERT INTO expenses stores
ExpenseRow(lid, user_id, title, amount, category, date, notes, t) ==
    [id |-> lid, user_id |-> user_id, title |-> title, amount |-> amount,
     category |-> category, date |-> date, notes |-> notes,
     created_at |-> t, updated_at |-> t]

\* insert_expense on a connection without PRAGMA foreign_keys=ON
insert_expense_unenforced(d, user_id, title, amount, category, date, notes, t) ==
    LET lid == d.seq.expenses + 1
        row == ExpenseRow(lid, user_id, title, amount, category, date, notes, t)
    IN  Returns([d EXCEPT !.expenses = @ \cup {row}, !.seq.expenses = lid], row)

\* FOREIGN KEY (user_id) REFERENCES users(id), enforced by both engines
insert_expense(d, user_id, title, amount, category, date, notes, t) ==
    LET lid == d.seq.expenses + 1
        row == ExpenseRow(lid, user_id, title, amount, category, date, notes, t)
    IN  IF user_id \notin UserIds(d)
        THEN Raises(d, "IntegrityError")
        ELSE Returns([d EXCEPT !.expenses = @ \cup {row}, !.seq.expenses = lid],
                     row)

\* OwnedById without the owner: WHERE id = ?
ById(r, user_id, expense_id) == r.id = expense_id

\* WHERE id = ? AND user_id = ?
OwnedById(r, user_id, expense_id) == r.id = expense_id /\ r.user_id = user_id

fetch_expense_by_id(d, user_id, expense_id) ==
    LET row == FetchOne({r \in d.expenses : OwnedById(r, user_id, expense_id)})
    IN  IF row # NoRow THEN _serialise_row(row) ELSE NoRow

\* UpdateRow writing every column of the input, a column not supplied as NULL
UpdateRowAllColumns(r, fields, t) ==
    [k \in DOMAIN r |->
        IF k = "updated_at" THEN t
        ELSE IF k \in DOMAIN fields THEN fields[k]
        ELSE IF k \in {"title", "amount", "category", "date", "notes"} THEN None
        ELSE r[k]]

\* UPDATE expenses SET <fields>, updated_at = ? WHERE id = ? AND user_id = ?
\* fields: a function from the supplied column names to their new values
UpdateRow(r, fields, t) ==
    [k \in DOMAIN r |->
        IF k = "updated_at" THEN t
        ELSE IF k \in DOMAIN fields THEN fields[k] ELSE r[k]]

\* update_expense without the test for no fields: updated_at is always set
update_expense_unguarded(d, user_id, expense_id, fields, t) ==
    LET d2 == [d EXCEPT !.expenses =
                  {IF OwnedById(r, user_id, expense_id)
                   THEN UpdateRow(r, fields, t) ELSE r : r \in @}]
    IN  Returns(d2, fetch_expense_by_id(d2, user_id, expense_id))

update_expense(d, user_id, expense_id, fields, t) ==
    IF DOMAIN fields = {}
    THEN Returns(d, fetch_expense_by_id(d, user_id, expense_id))
    ELSE LET d2 == [d EXCEPT !.expenses =
                       {IF OwnedById(r, user_id, expense_id)
                        THEN UpdateRow(r, fields, t) ELSE r : r \in @}]
         IN  Returns(d2, fetch_expense_by_id(d2, user_id, expense_id))

\* delete_expense answering from a SELECT and never running the DELETE
delete_expense_unexecuted(d, user_id, expense_id) ==
    Returns(d, Bool(\E r \in d.expenses : /\ r.id = expense_id
                                          /\ r.user_id = user_id))

\* delete_expense returning rowcount >= 0
delete_expense_any_rowcount(d, user_id, expense_id) ==
    LET hit == {r \in d.expenses : OwnedById(r, user_id, expense_id)}
    IN  Returns([d EXCEPT !.expenses = @ \ hit], Bool(Cardinality(hit) >= 0))

\* DELETE FROM expenses WHERE id = ? AND user_id = ?; returns rowcount > 0
delete_expense(d, user_id, expense_id) ==
    LET hit == {r \in d.expenses : OwnedById(r, user_id, expense_id)}
    IN  Returns([d EXCEPT !.expenses = @ \ hit], Bool(Cardinality(hit) > 0))

(***************************************************************************)
(* Result lists.  A SELECT returns a list; where ORDER BY leaves rows tied *)
(* (or is absent) the engine picks the order, so a query is modelled by    *)
(* the set of lists it can return.                                         *)
(***************************************************************************)
Min(a, b) == IF a < b THEN a ELSE b

\* Every list of all the elements of S in which no element comes after one
\* that before, a set of pairs <<first, second>>, puts behind it
Orderings(S, before) ==
    LET n == Cardinality(S)
    IN  {s \in [1..n -> S] :
            /\ \A i, j \in 1..n : i # j => s[i] # s[j]
            /\ \A i, j \in 1..n : i < j => <<s[j], s[i]>> \notin before}

\* A query without ORDER BY
AnyOrder == {}

\* LIMIT k
Limit(s, k) == SubSeq(s, 1, Min(k, Len(s)))

RECURSIVE SumAmount(_)
SumAmount(rows) ==
    IF rows = {} THEN 0
    ELSE LET r == CHOOSE x \in rows : TRUE
         IN  r.amount + SumAmount(rows \ {r})

\* The collation of the category names (CategoryEnum, src/models/schemas.py)
CategoryOrder ==
    <<"Bills", "Education", "Entertainment", "Food",
      "Health", "Other", "Shopping", "Travel">>

CategoryRank(c) == CHOOSE i \in 1..Len(CategoryOrder) : CategoryOrder[i] = c

\* ExpenseFilter without the owner: WHERE 1 = 1 [AND category = ?] ...
ExpenseFilterAnyOwner(r, user_id, category, start_date, end_date) ==
    /\ (category \notin {None, ""} => r.category = category)
    /\ (start_date # NoDate => DateLeq(start_date, r.date))
    /\ (end_date # NoDate => DateLeq(r.date, end_date))

\* WHERE user_id = ? [AND category = ?] [AND date >= ?] [AND date <= ?]
\* (an argument that is None or empty adds no condition)
ExpenseFilter(r, user_id, category, start_date, end_date) ==
    /\ r.user_id = user_id
    /\ (category \notin {None, ""} => r.category = category)
    /\ (start_date # NoDate => DateLeq(start_date, r.date))
    /\ (end_date # NoDate => DateLeq(r.date, end_date))

\* DateDesc turned around: ORDER BY date (ascending)
DateAsc(rows) == {p \in rows \X rows : DateLess(p[1].date, p[2].date)}

\* ORDER BY date DESC
DateDesc(rows) == {p \in rows \X rows : DateLess(p[2].date, p[1].date)}

\* SELECT * FROM expenses WHERE ... ORDER BY date DESC LIMIT ?
fetch_expenses(d, user_id, category, start_date, end_date, limit) ==
    LET hit == {r \in d.expenses :
                    ExpenseFilter(r, user_id, category, start_date, end_date)}
    IN  {[i \in DOMAIN Limit(s, limit) |-> _serialise_row(s[i])] :
            s \in Orderings(hit, DateDesc(hit))}

\* SummaryFilter with the end of the range left out: AND date < ?
SummaryFilterBeforeEnd(r, user_id, start_date, end_date) ==
    /\ r.user_id = user_id
    /\ (start_date # NoDate => DateLeq(start_date, r.date))
    /\ (end_date # NoDate => DateLess(r.date, end_date))

\* WHERE user_id = ? [AND date >= ?] [AND date <= ?]
SummaryFilter(r, user_id, start_date, end_date) ==
    /\ r.user_id = user_id
    /\ (start_date # NoDate => DateLeq(start_date, r.date))
    /\ (end_date # NoDate => DateLeq(r.date, end_date))

\* ORDER BY total_spent DESC
TotalDesc(groups) ==
    {p \in groups \X groups : p[1].total_spent > p[2].total_spent}

\* SELECT category, SUM(amount) AS total_spent, COUNT(*) AS transaction_count
\* FROM expenses WHERE ... GROUP BY category ORDER BY total_spent DESC:
\* the lists it can return
fetch_spending_summary(d, user_id, start_date, end_date) ==
    LET hit == {r \in d.expenses :
                    SummaryFilter(r, user_id, start_date, end_date)}
        of(c) == {r \in hit : r.category = c}
        groups == {[category |-> c, total_spent |-> SumAmount(of(c)),
                    transaction_count |-> Cardinality(of(c))] :
                        c \in {r.category : r \in hit}}
    IN  {[i \in DOMAIN s |-> _serialise_row(s[i])] :
            s \in Orderings(groups, TotalDesc(groups))}

\* fetch_all_categories with ORDER BY category DESC
fetch_all_categories_desc(d, user_id) ==
    LET cats == {r.category : r \in {x \in d.expenses : x.user_id = user_id}}
        ByName == {p \in cats \X cats : CategoryRank(p[1]) > CategoryRank(p[2])}
    IN  CHOOSE s \in Orderings(cats, ByName) : TRUE

\* SELECT DISTINCT category FROM expenses WHERE user_id = ? ORDER BY category
fetch_all_categories(d, user_id) ==
    LET cats == {r.category : r \in {x \in d.expenses : x.user_id = user_id}}
        ByName == {p \in cats \X cats : CategoryRank(p[1]) < CategoryRank(p[2])}
    IN  CHOOSE s \in Orderings(cats, ByName) : TRUE

(***************************************************************************)
(* CRUD - budgets                                                          *)
(***************************************************************************)
\* UNIQUE(user_id, category, month, year)
SameBudgetKey(b, user_id, category, month, year) ==
    /\ b.user_id = user_id
    /\ b.category = category
    /\ b.month = month
    /\ b.year = year

\* UpsertBudgetStatement as a plain INSERT: the UNIQUE key refuses a second row
InsertBudget(d, user_id, category, limit_amount, month, year) ==
    LET lid == d.seq.budgets + 1
        row == [id |-> lid, user_id |-> user_id, category |-> category,
                limit_amount |-> limit_amount, month |-> month, year |-> year]
    IN  IF user_id \notin UserIds(d)
           \/ \E b \in d.budgets :
                    SameBudgetKey(b, user_id, category, month, year)
        THEN Raises(d, "IntegrityError")
        ELSE Returns([d EXCEPT !.budgets = @ \cup {row}, !.seq.budgets = lid],
                     lid)

\* UpsertBudgetStatement as INSERT OR IGNORE: a conflicting row keeps its limit
InsertOrIgnoreBudget(d, user_id, category, limit_amount, month, year) ==
    LET lid == d.seq.budgets + 1
        row == [id |-> lid, user_id |-> user_id, category |-> category,
                limit_amount |-> limit_amount, month |-> month, year |-> year]
    IN  IF user_id \notin UserIds(d)
        THEN Raises(d, "IntegrityError")
        ELSE IF \E b \in d.budgets :
                    SameBudgetKey(b, user_id, category, month, year)
        THEN Returns(d, 0)
        ELSE Returns([d EXCEPT !.budgets = @ \cup {row}, !.seq.budgets = lid],
                     lid)

\* INSERT INTO budgets ... ON CONFLICT(user_id, category, month, year)
\* DO UPDATE SET limit_amount = excluded.limit_amount
\* (ON DUPLICATE KEY UPDATE with the client/server engine)
UpsertBudgetStatement(d, user_id, category, limit_amount, month, year) ==
    LET lid == d.seq.budgets + 1
        row == [id |-> lid, user_id |-> user_id, category |-> category,
                limit_amount |-> limit_amount, month |-> month, year |-> year]
        dup == {b \in d.budgets : SameBudgetKey(b, user_id, category, month, year)}
    IN  IF user_id \notin UserIds(d)
        THEN Raises(d, "IntegrityError")
        ELSE IF dup # {}
        THEN Returns([d EXCEPT !.budgets =
                        {IF b \in dup
                         THEN [b EXCEPT !.limit_amount = limit_amount]
                         ELSE b : b \in @}], 0)
        ELSE Returns([d EXCEPT !.budgets = @ \cup {row}, !.seq.budgets = lid],
                     lid)

\* ReadBackBudget with WHERE user_id = ? alone: some budget row of the user
ReadBackBudgetOfUser(d, user_id, category, month, year) ==
    LET row == FetchOne({b \in d.budgets : b.user_id = user_id})
    IN  IF row # NoRow THEN _serialise_row(row) ELSE <<>>

\* SELECT * FROM budgets WHERE user_id = ? AND category = ? AND month = ?
\* AND year = ?;  return _serialise_row(row) if row else {}
ReadBackBudget(d, user_id, category, month, year) ==
    LET row == FetchOne({b \in d.budgets :
                            SameBudgetKey(b, user_id, category, month, year)})
    IN  IF row # NoRow THEN _serialise_row(row) ELSE <<>>

upsert_budget(d, user_id, category, limit_amount, month, year) ==
    LET w == UpsertBudgetStatement(d, user_id, category, limit_amount, month, year)
    IN  IF w.exc # ""
        THEN w
        ELSE Returns(w.db, ReadBackBudget(w.db, user_id, category, month, year))

(***************************************************************************)
(* Budget status                                                           *)
(***************************************************************************)
\* round(): to the nearest integer of n / d (n >= 0, d > 0). A tie goes to
\* the even neighbour; on the float the code rounds a tie can go either way,
\* and the amounts of the model produce none
RoundHalfEven(n, d) ==
    LET q == n \div d
        r == n % d
    IN  IF 2 * r < d THEN q
        ELSE IF 2 * r > d THEN q + 1
        ELSE IF q % 2 = 0 THEN q ELSE q + 1

\* round(x, 2) of an amount: cents
Round2(cents) == RoundHalfEven(cents, 1)

\* start_date = f"{year}-{month:02d}-01"
StatusStartDate(month, year) == <<year, month, 1>>

\* StatusEndDate with the month wrapping and the year staying
StatusEndDateSameYear(month, year) == <<year, (month % 12) + 1, 1>>

\* end_date = f"{year + 1}-01-01" if month == 12 else f"{year}-{month + 1:02d}-01"
StatusEndDate(month, year) ==
    IF month = 12 THEN <<year + 1, 1, 1>> ELSE <<year, month + 1, 1>>

\* SELECT category, SUM(amount) FROM expenses WHERE user_id = ? AND category
\* IN (...) AND date >= ? AND date < ? GROUP BY category, as the dict spending
\* (a category without a matching row has no group)
StatusSpending(d, user_id, categories, start_date, end_date) ==
    LET hit == {r \in d.expenses :
                    /\ r.user_id = user_id
                    /\ r.category \in categories
                    /\ DateLeq(start_date, r.date)
                    /\ DateLess(r.date, end_date)}
    IN  [c \in {r.category : r \in hit} |->
            SumAmount({r \in hit : r.category = c})]

\* PercentOf cutting the digits after the first decimal instead of rounding
PercentOfTruncated(x, y) ==
    IF y = 0 THEN [exc |-> "ZeroDivisionError", val |-> 0]
    ELSE [exc |-> "", val |-> (1000 * x) \div y]

\* x / y * 100 rounded to one decimal, in tenths of a percent; dividing by
\* zero raises
PercentOf(x, y) ==
    IF y = 0 THEN [exc |-> "ZeroDivisionError", val |-> 0]
    ELSE [exc |-> "", val |-> RoundHalfEven(1000 * x, y)]

\* PercentageUsed without the limit_amt > 0 test
PercentageUsedUnguarded(spent, limit_amt) == PercentOf(spent, limit_amt)

\* pct = (spent / limit_amt * 100) if limit_amt > 0 else 0.0; round(pct, 1)
PercentageUsed(spent, limit_amt) ==
    IF limit_amt > 0 THEN PercentOf(spent, limit_amt)
    ELSE [exc |-> "", val |-> 0]

\* spent = spending.get(cat, 0.0)
Spent(b, spending) ==
    IF b.category \in DOMAIN spending THEN spending[b.category] ELSE 0

\* round(x, 2) of a signed amount
Round2Signed(cents) ==
    IF cents >= 0 THEN Round2(cents) ELSE 0 - Round2(0 - cents)

\* One entry of the result, for budget row b
StatusEntry(b, spending) ==
    LET cat == b.category
        limit_amt == b.limit_amount
        spent == Spent(b, spending)
        remaining == limit_amt - spent
        pct == PercentageUsed(spent, limit_amt)
    IN  [category |-> cat, limit_amount |-> limit_amt,
         total_spent |-> Round2(spent),
         remaining |-> Round2Signed(remaining),
         percentage_used |-> pct.val]

\* fetch_budget_status reporting only the budgets whose category has spending
\* (the two queries joined into one inner join)
fetch_budget_status_joined(d, user_id, month, year) ==
    LET rows == {b \in d.budgets :
                    b.user_id = user_id /\ b.month = month /\ b.year = year}
        categories == {b.category : b \in rows}
        spending == StatusSpending(d, user_id, categories,
                        StatusStartDate(month, year), StatusEndDate(month, year))
        spent == {b \in rows : b.category \in DOMAIN spending}
    IN  {Returns(d, List([i \in DOMAIN s |->
                            StatusEntry(_serialise_row(s[i]), spending)])) :
            s \in Orderings(spent, AnyOrder)}

\* What fetch_budget_status can do (the budgets come in the engine's order):
\* return a list of entries, or raise what computing an entry raises
fetch_budget_status(d, user_id, month, year) ==
    LET rows == {b \in d.budgets :
                    b.user_id = user_id /\ b.month = month /\ b.year = year}
        categories == {b.category : b \in rows}
        spending == StatusSpending(d, user_id, categories,
                        StatusStartDate(month, year), StatusEndDate(month, year))
        failed == {b \in rows :
                    PercentageUsed(Spent(b, spending), b.limit_amount).exc # ""}
    IN  IF failed # {}
        THEN {Raises(d, "ZeroDivisionError")}
        ELSE {Returns(d, List([i \in DOMAIN s |->
                                StatusEntry(_serialise_row(s[i]), spending)])) :
                s \in Orderings(rows, AnyOrder)}

(***************************************************************************)
(* Inputs of the calls                                                     *)
(***************************************************************************)
ApiKeys == {DEFAULT_API_KEY, "key-2"}

\* The owner ids callers pass: the default user and the first registered one
OwnerIds == {1, 2}

ExpenseIds == 1..MaxExpenses

\* The clock reads the same second or a later one
Clock == {t \in {now, now + 1} : t <= MaxTime}

(***************************************************************************)
(* The database layer called by one caller at a time: a step is one call.  *)
(* K, U, E, F, B: the sets the call's arguments are drawn from; T: the     *)
(* clock readings.                                                         *)
(***************************************************************************)
Commit(res) ==
    /\ users' = res.db.users
    /\ expenses' = res.db.expenses
    /\ budgets' = res.db.budgets
    /\ seq' = res.db.seq

Call(op, args, res, t) ==
    /\ Commit(res)
    /\ now' = t
    /\ ret' = [op |-> op, args |-> args, exc |-> res.exc, val |-> res.val]

Did(op, args, res, t) ==
    /\ Call(op, args, res, t)
    /\ UNCHANGED <<isovars, concvars, toolvars, poolvars>>

\* The schema the CREATE TABLE statements give: each of expenses and budgets
\* with a user_id column and one foreign key on it
Initialised ==
    [tables |-> {"users", "expenses", "budgets"},
     user_id |-> {"expenses", "budgets"},
     fks |-> [expenses |-> 1, budgets |-> 1]]

\* init_db on an empty database: the tables, and _ensure_default_user
Init ==
    /\ users = {[id |-> 1, name |-> "Default User", email |-> "local@localhost",
                 api_key |-> DEFAULT_API_KEY, created_at |-> 0]}
    /\ expenses = {}
    /\ budgets = {}
    /\ seq = [users |-> 1, expenses |-> 0, budgets |-> 0]
    /\ now = 0
    /\ ret = [op |-> "init_db", args |-> <<>>, exc |-> "", val |-> NoRow]
    /\ solo = [expenses |-> {}, budgets |-> {},
               seq |-> [expenses |-> 0, budgets |-> 0]]
    /\ soloId = <<>>
    /\ calls = [p \in 1..MaxCalls |-> [pc |-> "idle"]]
    /\ lastCommit = <<>>
    /\ main = "not started"
    /\ _DEFAULT_USER_ID = 1
    /\ USE_MYSQL = FALSE
    /\ environ = EnvironOf(USE_MYSQL)
    /\ schema = Initialised
    /\ inUse = {}
    /\ ops = [p \in 1..MaxOps |-> [pc |-> "idle"]]
    /\ _pool = NoPool
    /\ pools = {}

CreateUser(K, T) ==
    \E k \in K, t \in T :
        /\ seq.users < Cardinality(OwnerIds)
        /\ Did("create_user", [api_key |-> k],
               create_user(DB, "User", None, k, t), t)

InsertExpense(U, E, T) ==
    \E u \in U, e \in E, t \in T :
        /\ seq.expenses < MaxExpenses
        /\ Did("insert_expense", [user_id |-> u, input |-> e],
               insert_expense(DB, u, e.title, e.amount, e.category, e.date,
                              e.notes, t), t)

UpdateExpense(U, F, T) ==
    \E u \in U, id \in ExpenseIds, f \in F, t \in T :
        Did("update_expense", [user_id |-> u, expense_id |-> id, fields |-> f],
            update_expense(DB, u, id, f, t), t)

DeleteExpense(U, T) ==
    \E u \in U, id \in ExpenseIds, t \in T :
        Did("delete_expense", [user_id |-> u, expense_id |-> id],
            delete_expense(DB, u, id), t)

UpsertBudget(U, B, T) ==
    \E u \in U, b \in B, t \in T :
        Did("upsert_budget", [user_id |-> u, input |-> b],
            upsert_budget(DB, u, b.category, b.limit_amount, b.month, b.year),
            t)

\* fetch_budget_status read by a tool or a resource: one of the results the
\* engine's row order allows
FetchBudgetStatus(U, M) ==
    \E u \in U, m \in M :
        \E res \in fetch_budget_status(DB, u, m.month, m.year) :
            Did("fetch_budget_status",
                [user_id |-> u, month |-> m.month, year |-> m.year], res, now)

\* fetch_expenses read by a tool or a resource: one of the lists the engine's
\* row order allows
FetchExpenses(U, Q) ==
    \E u \in U, q \in Q :
        \E rows \in fetch_expenses(DB, u, q.category, q.start_date, q.end_date,
                                   q.limit) :
            Did("fetch_expenses", [user_id |-> u, query |-> q],
                Returns(DB, List(rows)), now)

FetchSpendingSummary(U, Q) ==
    \E u \in U, q \in Q :
        \E groups \in fetch_spending_summary(DB, u, q.start_date, q.end_date) :
            Did("fetch_spending_summary", [user_id |-> u, query |-> q],
                Returns(DB, List(groups)), now)

FetchExpenseById(U) ==
    \E u \in U, id \in ExpenseIds :
        Did("fetch_expense_by_id", [user_id |-> u, expense_id |-> id],
            Returns(DB, fetch_expense_by_id(DB, u, id)), now)

AuthenticateUser(K) ==
    \E k \in K :
        Did("authenticate_user", [api_key |-> k],
            Returns(DB, authenticate_user(DB, k)), now)

(***************************************************************************)
(* Spec: the expense calls, with the clock running                         *)
(***************************************************************************)
CrudInputs ==
    {[title |-> "Coffee", amount |-> 450, category |-> "Food",
      date |-> <<2024, 3, 1>>, notes |-> None],
     [title |-> "Taxi", amount |-> 2000, category |-> "Travel",
      date |-> <<2024, 4, 2>>, notes |-> "airport"]}

\* Field sets of update_expense (<<>> is the empty one)
CrudUpdates == {<<>>, [amount |-> 2550, notes |-> "with cake"]}

Next ==
    \/ CreateUser(ApiKeys, Clock)
    \/ InsertExpense(OwnerIds, CrudInputs, Clock)
    \/ UpdateExpense(OwnerIds, CrudUpdates, Clock)
    \/ DeleteExpense(OwnerIds, Clock)

Spec == Init /\ [][Next]_vars

\* The expense row with this id, whoever owns it
RowOf(id) == {r \in expenses : r.id = id}

\* C2: update_expense or delete_expense called by an owner on an existing
\* expense of another owner returns not-found (None / False) and leaves the
\* expenses table, that row's updated_at included, as it was.
C2_WrongOwnerNotFound ==
    [][(/\ ret'.op \in {"update_expense", "delete_expense"}
        /\ \E r \in expenses : /\ r.id = ret'.args.expense_id
                               /\ r.user_id # ret'.args.user_id)
       => /\ ret'.exc = ""
          /\ ret'.op = "update_expense" => ret'.val = NoRow
          /\ ret'.op = "delete_expense" => ret'.val = Bool(FALSE)
          /\ expenses' = expenses]_vars

\* An update with fields, by another owner and a second later than the row's
\* last change, was answered None
C2_Witness ==
    /\ ret.op = "update_expense"
    /\ DOMAIN ret.args.fields # {}
    /\ ret.val = NoRow
    /\ \E r \in expenses : /\ r.id = ret.args.expense_id
                           /\ r.user_id # ret.args.user_id
                           /\ r.updated_at < now

\* C4: after a valid insert_expense, fetch_expense_by_id with the same owner
\* and the returned id gives a row holding the inserted title, amount,
\* category, date, notes and owner.
C4_InsertFetchRoundTrip ==
    (ret.op = "insert_expense" /\ ret.exc = "") =>
        LET row == fetch_expense_by_id(DB, ret.args.user_id, ret.val.id)
            input == ret.args.input
        IN  /\ row # NoRow
            /\ row.user_id = ret.args.user_id
            /\ row.title = input.title
            /\ row.amount = input.amount
            /\ row.category = input.category
            /\ row.date = input.date
            /\ row.notes = input.notes

\* The second owner's insert of an expense with notes, after an earlier insert
C4_Witness ==
    /\ ret.op = "insert_expense"
    /\ ret.exc = ""
    /\ ret.args.user_id = 2
    /\ ret.args.input.notes # None
    /\ ret.val.id = 2
    /\ fetch_expense_by_id(DB, 2, 2) # NoRow

\* C5: delete_expense on an expense of the owner returns True and removes
\* that row and no other; the same call made again right after returns False
\* and changes no row.
C5_DeleteTwice ==
    [][ret'.op = "delete_expense" =>
        LET own == {r \in expenses : /\ r.id = ret'.args.expense_id
                                     /\ r.user_id = ret'.args.user_id}
        IN  /\ own # {} => /\ ret'.val = Bool(TRUE)
                           /\ Cardinality(own) = 1
                           /\ expenses' = expenses \ own
            /\ (/\ ret.op = "delete_expense"
                /\ ret.args = ret'.args
                /\ ret.val = Bool(TRUE))
               => /\ ret'.val = Bool(FALSE)
                  /\ expenses' = expenses]_vars

\* The only user there is deleted an expense that was allocated and is gone
\* (so it was deleted before): the answer is False, another row is still there
C5_Witness ==
    /\ ret.op = "delete_expense"
    /\ ret.val = Bool(FALSE)
    /\ Cardinality(users) = 1
    /\ ret.args.user_id = 1
    /\ ret.args.expense_id <= seq.expenses
    /\ RowOf(ret.args.expense_id) = {}
    /\ expenses # {}

(***************************************************************************)
(* SpecBudget: expenses inserted around a year's end and budgets set for   *)
(* its last two months, at one clock reading                               *)
(***************************************************************************)
StatusInputs ==
    {[title |-> "Coffee", amount |-> 1000, category |-> "Food",
      date |-> <<2024, 11, 30>>, notes |-> None],
     [title |-> "Coffee", amount |-> 1000, category |-> "Food",
      date |-> <<2024, 12, 1>>, notes |-> None],
     [title |-> "Dinner", amount |-> 2000, category |-> "Food",
      date |-> <<2024, 12, 31>>, notes |-> "new year's eve"],
     [title |-> "Brunch", amount |-> 1000, category |-> "Food",
      date |-> <<2025, 1, 1>>, notes |-> None],
     [title |-> "Taxi", amount |-> 1000, category |-> "Travel",
      date |-> <<2024, 12, 15>>, notes |-> "airport"]}

BudgetInputs ==
    {[category |-> "Food", limit_amount |-> l, month |-> m, year |-> 2024] :
        l \in {0, 3000, 10000}, m \in {11, 12}}

StatusMonths == {[month |-> m, year |-> 2024] : m \in {11, 12}}

NextBudget ==
    \/ CreateUser(ApiKeys, {now})
    \/ InsertExpense(OwnerIds, StatusInputs, {now})
    \/ UpsertBudget({1}, BudgetInputs, {now})
    \/ FetchBudgetStatus(OwnerIds, StatusMonths)

SpecBudget == Init /\ [][NextBudget]_vars

\* C6: a successful upsert_budget leaves exactly one row for its (owner,
\* category, month, year), holding the limit of this call - so after a second
\* call with another limit the row holds the second limit - and leaves every
\* other budget row as it was.
C6_UpsertOneRowPerKey ==
    [][(ret'.op = "upsert_budget" /\ ret'.exc = "") =>
        LET b == ret'.args.input
            same(x) == SameBudgetKey(x, ret'.args.user_id, b.category,
                                     b.month, b.year)
        IN  /\ Cardinality({x \in budgets' : same(x)}) = 1
            /\ \A x \in budgets' : same(x) => x.limit_amount = b.limit_amount
            /\ {x \in budgets' : ~same(x)} = {x \in budgets : ~same(x)}
            /\ \A x \in budgets : same(x) =>
                    \E y \in budgets' : same(y) /\ y.id = x.id]_vars

\* The upsert came back with the older of two budget rows: it met an existing
\* row (a new one would have the highest id) and the other row is in place
C6_Witness ==
    /\ ret.op = "upsert_budget"
    /\ ret.exc = ""
    /\ ret.val # <<>>
    /\ ret.val.id = 1
    /\ ret.val.limit_amount = 3000
    /\ seq.budgets = 2
    /\ Cardinality(budgets) = 2

\* The entries of a returned budget status
Entries == {ret.val.list[i] : i \in DOMAIN ret.val.list}

\* C8: the total_spent of a status entry for (month, year) is the sum over the
\* expenses of the same owner and category dated from the first day of the
\* month up to, not including, the first day of the next month; for month 12
\* that is January 1 of year + 1: December 31 counts, January 1 does not.
C8_StatusHalfOpenMonth ==
    (ret.op = "fetch_budget_status" /\ ret.exc = "") =>
        LET m == ret.args.month
            y == ret.args.year
            first == <<y, m, 1>>
            next == IF m = 12 THEN <<y + 1, 1, 1>> ELSE <<y, m + 1, 1>>
            mine(e) == {r \in expenses : /\ r.user_id = ret.args.user_id
                                         /\ r.category = e.category}
            counted(e) == {r \in mine(e) : /\ DateLeq(first, r.date)
                                           /\ DateLess(r.date, next)}
        IN  \A e \in Entries :
                /\ e.total_spent = SumAmount(counted(e))
                /\ m = 12 => \A r \in mine(e) :
                        /\ r.date = <<y, 12, 31>> => r \in counted(e)
                        /\ r.date = <<y + 1, 1, 1>> => r \notin counted(e)

\* The December status of an owner with expenses on December 31 and on the
\* next January 1 reports the December 31 amount alone
C8_Witness ==
    /\ ret.op = "fetch_budget_status"
    /\ ret.exc = ""
    /\ ret.args.month = 12
    /\ \E e \in Entries : /\ e.category = "Food"
                           /\ e.total_spent = 2000
    /\ \E r1, r2 \in expenses :
            /\ r1.user_id = ret.args.user_id /\ r1.category = "Food"
            /\ r1.date = <<2024, 12, 31>>
            /\ r2.user_id = ret.args.user_id /\ r2.category = "Food"
            /\ r2.date = <<2025, 1, 1>>

\* The expenses of the status call's owner in category c and in its month
InStatusMonth(c) ==
    {r \in expenses : /\ r.user_id = ret.args.user_id
                      /\ r.category = c
                      /\ r.date[1] = ret.args.year
                      /\ r.date[2] = ret.args.month}

\* C9 as stated: in every status entry total_spent is the sum of the owner's
\* expenses of that category in that month, remaining is limit_amount minus
\* total_spent, and percentage_used is total_spent / limit_amount * 100.
C9_ExactPercentage ==
    (ret.op = "fetch_budget_status" /\ ret.exc = "") =>
        \A e \in Entries :
            /\ e.total_spent = SumAmount(InStatusMonth(e.category))
            /\ e.remaining = e.limit_amount - e.total_spent
            /\ e.limit_amount > 0 =>
                    e.percentage_used * e.limit_amount = 1000 * e.total_spent

\* C9: in every status entry total_spent is the sum of the owner's expenses of
\* that category in that month, remaining is limit_amount minus total_spent,
\* and, for a limit above 0, percentage_used is total_spent / limit_amount *
\* 100 rounded to one decimal: no other tenth of a percent is nearer.
C9_RoundedPercentage ==
    (ret.op = "fetch_budget_status" /\ ret.exc = "") =>
        \A e \in Entries :
            LET exact == 1000 * e.total_spent
                shown == e.percentage_used * e.limit_amount
                off == IF shown >= exact THEN shown - exact ELSE exact - shown
            IN  /\ e.total_spent = SumAmount(InStatusMonth(e.category))
                /\ e.remaining = e.limit_amount - e.total_spent
                /\ e.limit_amount > 0 => 2 * off <= e.limit_amount

\* A status entry whose percentage has no exact decimal: 20.00 spent of a
\* limit of 30.00 is shown as 66.7, with 10.00 remaining
C9_Witness ==
    /\ ret.op = "fetch_budget_status"
    /\ ret.exc = ""
    /\ \E e \in Entries : /\ e.limit_amount = 3000
                          /\ e.total_spent = 2000
                          /\ e.remaining = 1000
                          /\ e.percentage_used = 667

\* C10: fetch_budget_status raises no division error, and a budget whose
\* limit_amount is 0 is reported with percentage_used 0.0.
C10_ZeroLimit ==
    ret.op = "fetch_budget_status" =>
        /\ ret.exc = ""
        /\ \A b \in budgets :
                (/\ b.user_id = ret.args.user_id
                 /\ b.month = ret.args.month
                 /\ b.year = ret.args.year
                 /\ b.limit_amount = 0)
                => \E e \in Entries : /\ e.category = b.category
                                      /\ e.limit_amount = 0
                                      /\ e.percentage_used = 0

\* The status of a month with a budget of limit 0 and money spent against it
C10_Witness ==
    /\ ret.op = "fetch_budget_status"
    /\ ret.exc = ""
    /\ \E e \in Entries : /\ e.limit_amount = 0
                          /\ e.total_spent > 0
                          /\ e.remaining < 0

(***************************************************************************)
(* SpecIso: two owners at work at one clock reading and, beside the        *)
(* database, the database solo of the run in which owner A makes the same  *)
(* calls and owner B makes none. A names an expense by the id its insert   *)
(* returned, which soloId carries from one run to the other.               *)
(***************************************************************************)
A == 1      \* the default user
B == A + 1  \* the user created next

SOLO == [users |-> users, expenses |-> solo.expenses, budgets |-> solo.budgets,
         seq |-> [users |-> seq.users, expenses |-> solo.seq.expenses,
                  budgets |-> solo.seq.budgets]]

\* The id in solo of the expense with this id; no row of solo has id 0
SoloIdOf(id) == IF id \in DOMAIN soloId THEN soloId[id] ELSE 0

\* A call of A: res in the database, sres in solo
Both(op, args, res, sres, ids) ==
    /\ Call(op, args, res, now)
    /\ solo' = [expenses |-> sres.db.expenses, budgets |-> sres.db.budgets,
                seq |-> [expenses |-> sres.db.seq.expenses,
                         budgets |-> sres.db.seq.budgets]]
    /\ soloId' = ids
    /\ UNCHANGED <<concvars, toolvars, poolvars>>

InsertExpenseByA(E) ==
    \E e \in E :
        /\ seq.expenses < MaxExpenses
        /\ LET res == insert_expense(DB, A, e.title, e.amount, e.category,
                                     e.date, e.notes, now)
               sres == insert_expense(SOLO, A, e.title, e.amount, e.category,
                                      e.date, e.notes, now)
           IN  Both("insert_expense", [user_id |-> A, input |-> e], res, sres,
                    (res.val.id :> sres.val.id) @@ soloId)

UpdateExpenseByA(F) ==
    \E id \in ExpenseIds, f \in F :
        Both("update_expense", [user_id |-> A, expense_id |-> id, fields |-> f],
             update_expense(DB, A, id, f, now),
             update_expense(SOLO, A, SoloIdOf(id), f, now), soloId)

DeleteExpenseByA ==
    \E id \in ExpenseIds :
        Both("delete_expense", [user_id |-> A, expense_id |-> id],
             delete_expense(DB, A, id),
             delete_expense(SOLO, A, SoloIdOf(id)), soloId)

UpsertBudgetByA(Bu) ==
    \E b \in Bu :
        Both("upsert_budget", [user_id |-> A, input |-> b],
             upsert_budget(DB, A, b.category, b.limit_amount, b.month, b.year),
             upsert_budget(SOLO, A, b.category, b.limit_amount, b.month,
                           b.year), soloId)

IsoInputs ==
    {[title |-> "Coffee", amount |-> 1000, category |-> "Food",
      date |-> <<2024, 3, 1>>, notes |-> None],
     [title |-> "Taxi", amount |-> 2000, category |-> "Travel",
      date |-> <<2024, 3, 2>>, notes |-> "airport"]}

IsoUpdates == {[amount |-> 2550, category |-> "Food"]}

IsoBudgets ==
    {[category |-> "Food", limit_amount |-> l, month |-> 3, year |-> 2024] :
        l \in {3000, 10000}}

NextIso ==
    \/ CreateUser({"key-2"}, {now})
    \/ InsertExpenseByA(IsoInputs)
    \/ UpdateExpenseByA(IsoUpdates)
    \/ DeleteExpenseByA
    \/ UpsertBudgetByA(IsoBudgets)
    \/ InsertExpense({B}, IsoInputs, {now})
    \/ UpdateExpense({B}, IsoUpdates, {now})
    \/ DeleteExpense({B}, {now})
    \/ UpsertBudget({B}, IsoBudgets, {now})

SpecIso == Init /\ [][NextIso]_vars

\* The queries of A that are compared
IsoCategories == {None, "Food"}
IsoLimits == {1, 50}

StatusValues(d) ==
    {[exc |-> o.exc, val |-> o.val] : o \in fetch_budget_status(d, A, 3, 2024)}

\* What the queries of A that carry no expense id return is what they return
\* in solo, and every expense row returned is a row of A
StatusAndCategoriesSame ==
    /\ StatusValues(DB) = StatusValues(SOLO)
    /\ fetch_all_categories(DB, A) = fetch_all_categories(SOLO, A)
    /\ \A c \in IsoCategories, l \in IsoLimits :
            \A s \in fetch_expenses(DB, A, c, NoDate, NoDate, l) :
                \A i \in DOMAIN s : s[i].user_id = A
    /\ \A id \in ExpenseIds :
            fetch_expense_by_id(DB, A, id) # NoRow =>
                fetch_expense_by_id(DB, A, id).user_id = A

\* C1 as stated: what fetch_expenses, fetch_expense_by_id, fetch_budget_status
\* and fetch_all_categories return to A holds rows of A only and is identical
\* to what they return in the run in which B calls nothing.
C1_IdenticalWithoutB ==
    /\ StatusAndCategoriesSame
    /\ \A c \in IsoCategories, l \in IsoLimits :
            fetch_expenses(DB, A, c, NoDate, NoDate, l)
                = fetch_expenses(SOLO, A, c, NoDate, NoDate, l)
    /\ \A id \in ExpenseIds :
            fetch_expense_by_id(DB, A, id) = fetch_expense_by_id(SOLO, A, id)

\* A row of A with the id it has in solo
SoloRow(row) == IF row = NoRow THEN NoRow ELSE [row EXCEPT !.id = SoloIdOf(@)]

\* C1: what fetch_expenses, fetch_expense_by_id, fetch_budget_status and
\* fetch_all_categories return to A holds rows of A only and is what they
\* return in the run in which B calls nothing, but for the expense ids: a
\* row of A has the id it was given by the counter all owners share.
C1_SameUpToIdsWithoutB ==
    /\ StatusAndCategoriesSame
    /\ \A c \in IsoCategories, l \in IsoLimits :
            {[i \in DOMAIN s |-> SoloRow(s[i])] :
                s \in fetch_expenses(DB, A, c, NoDate, NoDate, l)}
                = fetch_expenses(SOLO, A, c, NoDate, NoDate, l)
    /\ \A id \in ExpenseIds :
            SoloRow(fetch_expense_by_id(DB, A, id))
                = fetch_expense_by_id(SOLO, A, SoloIdOf(id))

\* B has an expense row and a budget of its own, with another limit than A's
\* for the same category and month, and A has an expense inserted after one
\* of B's
C1_Witness ==
    /\ \E r \in expenses : r.user_id = B /\ r.category = "Food"
    /\ \E r \in expenses : r.user_id = A /\ SoloIdOf(r.id) # r.id
    /\ \E a, b \in budgets : /\ a.user_id = A /\ b.user_id = B
                             /\ a.limit_amount # b.limit_amount

(***************************************************************************)
(* SpecConc: upsert_budget calls running as concurrent tasks. A call       *)
(* yields at each await: before its statement (pc "execute"), between the  *)
(* statement and its commit (pc "commit"), and before the read-back (pc    *)
(* "select"). The engine makes a statement wait while another transaction  *)
(* that wrote the same key is open, and shows a transaction's write to the *)
(* others when it commits.                                                 *)
(***************************************************************************)
Tasks == 1..MaxCalls

KeyOf(c) == [user_id |-> c.user_id, category |-> c.input.category,
             month |-> c.input.month, year |-> c.input.year]

\* Another task's open transaction has written the key of task p
Blocked(p) ==
    \E q \in Tasks \ {p} : calls[q].pc = "commit" /\ KeyOf(calls[q]) = KeyOf(calls[p])

\* A step of a task that touches neither the database nor the last return
TaskStep(p, c) ==
    /\ calls' = [calls EXCEPT ![p] = c]
    /\ UNCHANGED <<dbvars, now, ret, lastCommit, isovars, toolvars, poolvars>>

\* upsert_budget is called
UpsertBudgetCall(p, U, Bu) ==
    \E u \in U, b \in Bu :
        /\ calls[p].pc = "idle"
        /\ TaskStep(p, [pc |-> "execute", user_id |-> u, input |-> b])

\* _execute: conn.execute(query, params)
UpsertBudgetExecute(p) ==
    /\ calls[p].pc = "execute"
    /\ ~Blocked(p)
    /\ TaskStep(p, [calls[p] EXCEPT !.pc = "commit"])

\* _execute: conn.commit(); what the statement raised ends the call
UpsertBudgetCommit(p) ==
    /\ calls[p].pc = "commit"
    /\ LET c == calls[p]
           b == c.input
           w == UpsertBudgetStatement(DB, c.user_id, b.category, b.limit_amount,
                                      b.month, b.year)
       IN  /\ Commit(w)
           /\ IF w.exc = ""
              THEN /\ calls' = [calls EXCEPT ![p].pc = "select"]
                   /\ lastCommit' = (KeyOf(c) :> b.limit_amount) @@ lastCommit
                   /\ ret' = ret
              ELSE /\ calls' = [calls EXCEPT ![p] = [pc |-> "idle"]]
                   /\ lastCommit' = lastCommit
                   /\ ret' = [op |-> "upsert_budget",
                              args |-> [user_id |-> c.user_id, input |-> b],
                              exc |-> w.exc, val |-> NoRow]
    /\ UNCHANGED <<now, isovars, toolvars, poolvars>>

\* _fetchone of the row of the key, and the return
UpsertBudgetSelect(p) ==
    /\ calls[p].pc = "select"
    /\ LET c == calls[p]
           b == c.input
       IN  ret' = [op |-> "upsert_budget",
                   args |-> [user_id |-> c.user_id, input |-> b], exc |-> "",
                   val |-> ReadBackBudget(DB, c.user_id, b.category, b.month,
                                          b.year)]
    /\ calls' = [calls EXCEPT ![p] = [pc |-> "idle"]]
    /\ UNCHANGED <<dbvars, now, lastCommit, isovars, toolvars, poolvars>>

ConcBudgets ==
    {[category |-> "Food", limit_amount |-> 3000, month |-> 3, year |-> 2024],
     [category |-> "Food", limit_amount |-> 10000, month |-> 3, year |-> 2024],
     [category |-> "Travel", limit_amount |-> 5000, month |-> 3, year |-> 2024]}

NextConc ==
    \E p \in Tasks :
        \/ UpsertBudgetCall(p, {1}, ConcBudgets)
        \/ UpsertBudgetExecute(p)
        \/ UpsertBudgetCommit(p)
        \/ UpsertBudgetSelect(p)

SpecConc == Init /\ [][NextConc]_vars

\* C7: under every interleaving of concurrent upsert_budget calls there is at
\* most one budget row per (user_id, category, month, year), no call ends in
\* an error, and the limit stored for a key is the limit of the upsert that
\* committed last for it.
C7_ConcurrentUpserts ==
    /\ \A x, y \in budgets :
            SameBudgetKey(x, y.user_id, y.category, y.month, y.year) => x = y
    /\ ret.op = "upsert_budget" => ret.exc = ""
    /\ \A k \in DOMAIN lastCommit :
            \E x \in budgets :
                /\ SameBudgetKey(x, k.user_id, k.category, k.month, k.year)
                /\ x.limit_amount = lastCommit[k]

\* A call that committed 30.00 for a key has not read its row back yet, and
\* another call has since committed 100.00 for the same key; a third row
\* exists for another key
C7_Witness ==
    /\ \E p \in Tasks :
            /\ calls[p].pc = "select"
            /\ calls[p].input.limit_amount = 3000
            /\ KeyOf(calls[p]) \in DOMAIN lastCommit
            /\ lastCommit[KeyOf(calls[p])] = 10000
    /\ Cardinality(budgets) = 2

(***************************************************************************)
(* SpecTools: main.py starting, and the tool functions of tools/expenses.py *)
(* called (by the server they are registered with, or by any importer of   *)
(* the module) next to direct calls of the database layer.                 *)
(***************************************************************************)
\* The names a module defines that main.py imports from it
ModuleNames ==
    [tools_expenses |-> {"add_expense", "get_expenses", "update_expense",
                         "delete_expense", "get_summary", "get_top_expenses"},
     tools_budgets |-> {"set_budget", "get_budget_status"},
     resources |-> {"get_all_expenses", "get_expense_summary", "get_categories",
                    "get_budget_status_resource", "set_default_user_id"}]

\* from tools.expenses import ..., from tools.budgets import ..., from
\* resources.expense_resources import ...: a name a module lacks is an
\* ImportError
MainImports ==
    [tools_expenses |-> {"add_expense", "get_expenses", "update_expense",
                         "delete_expense", "get_summary", "get_top_expenses",
                         "set_default_user_id"},
     tools_budgets |-> {"set_budget", "get_budget_status",
                        "set_default_user_id"},
     resources |-> {"get_all_expenses", "get_expense_summary", "get_categories",
                    "get_budget_status_resource", "set_default_user_id"}]

\* python main.py: the imports, then init_db(), _set_active_user(1), mcp.run()
MainStart ==
    /\ main = "not started"
    /\ LET ok == \A m \in DOMAIN MainImports : MainImports[m] \subseteq ModuleNames[m]
       IN  /\ main' = IF ok THEN "running" ELSE "ImportError"
           /\ _DEFAULT_USER_ID' = IF ok THEN 1 ELSE _DEFAULT_USER_ID
           /\ ret' = [op |-> "main", args |-> <<>>,
                      exc |-> IF ok THEN "" ELSE "ImportError", val |-> NoRow]
    /\ UNCHANGED <<dbvars, now, isovars, concvars, poolvars>>

\* The parameters without a default of the database functions the tools call
RequiredParams ==
    [insert_expense |-> {"user_id", "title", "amount", "category", "date",
                         "notes"},
     fetch_expenses |-> {"user_id"},
     fetch_expense_by_id |-> {"user_id", "expense_id"},
     update_expense |-> {"user_id", "expense_id"},
     delete_expense |-> {"user_id", "expense_id"}]

\* Calling f with these keyword arguments raises TypeError
MissingArgument(f, kwargs) == RequiredParams[f] \ DOMAIN kwargs # {}

ValidDate(date) ==
    /\ date # NoDate
    /\ date[2] \in 1..12
    /\ date[3] \in 1..31

\* AddExpenseInput without gt=0 on amount
ValidAddExpenseAnyAmount(input) ==
    /\ input.title # ""
    /\ \E i \in 1..Len(CategoryOrder) : CategoryOrder[i] = input.category
    /\ ValidDate(input.date)

\* AddExpenseInput(...) validates
ValidAddExpense(input) ==
    /\ input.title # ""
    /\ input.amount > 0
    /\ \E i \in 1..Len(CategoryOrder) : CategoryOrder[i] = input.category
    /\ ValidDate(input.date)

\* tools.expenses.add_expense (without a Context: nothing is elicited)
add_expense(d, input, t) ==
    IF ~ValidAddExpense(input)
    THEN Returns(d, [error |-> "Validation error"])
    ELSE LET kwargs == [title |-> input.title, amount |-> input.amount,
                        category |-> input.category, date |-> input.date,
                        notes |-> input.notes]
         IN  IF MissingArgument("insert_expense", kwargs)
             THEN Returns(d, [error |-> "Failed to add expense",
                              cause |-> "TypeError"])
             ELSE LET r == insert_expense(d, kwargs.user_id, kwargs.title,
                                kwargs.amount, kwargs.category, kwargs.date,
                                kwargs.notes, t)
                  IN  IF r.exc # ""
                      THEN Returns(d, [error |-> "Failed to add expense",
                                       cause |-> r.exc])
                      ELSE Returns(r.db,
                                   [message |-> "Expense added successfully.",
                                    expense |-> r.val])

\* tools.expenses.get_expenses, for valid filters: the results it can give
get_expenses(d, q) ==
    LET kwargs == [category |-> q.category, start_date |-> q.start_date,
                   end_date |-> q.end_date, limit |-> q.limit]
    IN  IF MissingArgument("fetch_expenses", kwargs)
        THEN {Returns(d, [error |-> "Failed to fetch expenses",
                          cause |-> "TypeError"])}
        ELSE {Returns(d, [count |-> Len(rows), expenses |-> rows]) :
                rows \in fetch_expenses(d, kwargs.user_id, kwargs.category,
                                        kwargs.start_date, kwargs.end_date,
                                        kwargs.limit)}

AddExpense(E, T) ==
    \E e \in E, t \in T :
        /\ seq.expenses < MaxExpenses
        /\ Did("add_expense", [input |-> e], add_expense(DB, e, t), t)

GetExpenses(Q) ==
    \E q \in Q :
        \E res \in get_expenses(DB, q) : Did("get_expenses", [query |-> q], res, now)

ToolInputs ==
    {[title |-> "Coffee", amount |-> 450, category |-> "Food",
      date |-> <<2024, 3, 1>>, notes |-> None],
     [title |-> "Refund", amount |-> 0, category |-> "Food",
      date |-> <<2024, 3, 1>>, notes |-> None]}

ToolQueries ==
    {[category |-> c, start_date |-> NoDate, end_date |-> NoDate, limit |-> 50] :
        c \in {None, "Food"}}

NextTools ==
    \/ MainStart
    \/ AddExpense(ToolInputs, Clock)
    \/ GetExpenses(ToolQueries)
    \/ CreateUser(ApiKeys, Clock)
    \/ InsertExpense(OwnerIds, CrudInputs, Clock)

SpecTools == Init /\ [][NextTools]_vars

\* C3: main.py starts, and a valid add_expense stores the expense with the
\* active owner (user 1 after startup) and returns it; a get_expenses that
\* follows returns the rows of that owner.
C3_ToolsReachActiveOwner ==
    /\ main # "ImportError"
    /\ (ret.op = "add_expense" /\ ValidAddExpense(ret.args.input)) =>
            /\ "error" \notin DOMAIN ret.val
            /\ \E r \in expenses : /\ r.user_id = _DEFAULT_USER_ID
                                   /\ r.title = ret.args.input.title
                                   /\ r.amount = ret.args.input.amount
    /\ ret.op = "get_expenses" =>
            /\ "error" \notin DOMAIN ret.val
            /\ ret.val.count = Cardinality({r \in expenses :
                    ExpenseFilter(r, _DEFAULT_USER_ID, ret.args.query.category,
                                  NoDate, NoDate)})

(***************************************************************************)
(* More of SpecBudget                                                      *)
(***************************************************************************)
\* The budget rows a status call is about
StatusBudgets ==
    {b \in budgets : /\ b.user_id = ret.args.user_id
                     /\ b.month = ret.args.month
                     /\ b.year = ret.args.year}

\* C11: fetch_budget_status returns one entry per budget row of the owner,
\* month and year and no other entry: a category with expenses and no budget
\* has none, and a budget without a matching expense has one with
\* total_spent 0 and remaining equal to its limit.
C11_StatusBudgetDriven ==
    (ret.op = "fetch_budget_status" /\ ret.exc = "") =>
        /\ Len(ret.val.list) = Cardinality(StatusBudgets)
        /\ \A b \in StatusBudgets :
                \E e \in Entries : /\ e.category = b.category
                                   /\ e.limit_amount = b.limit_amount
        /\ \A e \in Entries :
                /\ \E b \in StatusBudgets : b.category = e.category
                /\ InStatusMonth(e.category) = {} =>
                        /\ e.total_spent = 0
                        /\ e.remaining = e.limit_amount

\* The December status of an owner whose only December expense is a taxi and
\* whose only December budget is for food: one entry, nothing spent
C11_Witness ==
    /\ ret.op = "fetch_budget_status"
    /\ ret.exc = ""
    /\ ret.args.month = 12
    /\ \E r \in expenses : /\ r.user_id = ret.args.user_id
                           /\ r.category = "Travel"
                           /\ r.date = <<2024, 12, 15>>
    /\ Len(ret.val.list) = 1
    /\ \E e \in Entries : /\ e.category = "Food"
                          /\ e.total_spent = 0
                          /\ e.remaining = 3000

(***************************************************************************)
(* SpecQuery: expenses of two owners inserted on and around the ends of    *)
(* March 2024, and the list and summary queries read with and without each *)
(* filter                                                                  *)
(***************************************************************************)
QueryInputs ==
    {[title |-> "Coffee", amount |-> 450, category |-> "Food",
      date |-> <<2024, 3, 1>>, notes |-> None],
     [title |-> "Dinner", amount |-> 2000, category |-> "Food",
      date |-> <<2024, 3, 31>>, notes |-> None],
     [title |-> "Taxi", amount |-> 2000, category |-> "Travel",
      date |-> <<2024, 2, 29>>, notes |-> "airport"],
     [title |-> "Bus", amount |-> 450, category |-> "Travel",
      date |-> <<2024, 4, 1>>, notes |-> None]}

DateRanges ==
    {[start_date |-> a, end_date |-> b] :
        a \in {NoDate, <<2024, 3, 1>>}, b \in {NoDate, <<2024, 3, 31>>}}

ListQueries ==
    {[category |-> c, start_date |-> r.start_date, end_date |-> r.end_date,
      limit |-> l] : c \in {None, "Food"}, r \in DateRanges, l \in {1, 50}}

NextQuery ==
    \/ CreateUser({"key-2"}, {now})
    \/ InsertExpense(OwnerIds, QueryInputs, {now})
    \/ FetchExpenses(OwnerIds, ListQueries)
    \/ FetchSpendingSummary(OwnerIds, DateRanges)

SpecQuery == Init /\ [][NextQuery]_vars

\* The returned list
Listed == ret.val.list

\* The expenses of the query's owner dated within the bounds the query gives
InRange ==
    LET q == ret.args.query
    IN  {r \in expenses :
            /\ r.user_id = ret.args.user_id
            /\ q.start_date # NoDate => DateLeq(q.start_date, r.date)
            /\ q.end_date # NoDate => DateLeq(r.date, q.end_date)}

\* C12: fetch_spending_summary returns one group per category with an expense
\* of the owner in the inclusive range (an absent bound excludes nothing),
\* with the sum of the amounts and the number of those expenses, the groups
\* in descending order of total_spent.
C12_SpendingSummary ==
    ret.op = "fetch_spending_summary" =>
        /\ ret.exc = ""
        /\ {Listed[i].category : i \in DOMAIN Listed}
                = {r.category : r \in InRange}
        /\ Len(Listed) = Cardinality({r.category : r \in InRange})
        /\ \A i \in DOMAIN Listed :
                LET rows == {r \in InRange : r.category = Listed[i].category}
                IN  /\ Listed[i].total_spent = SumAmount(rows)
                    /\ Listed[i].transaction_count = Cardinality(rows)
        /\ \A i, j \in DOMAIN Listed :
                i < j => Listed[i].total_spent >= Listed[j].total_spent

\* The summary of March 1 to March 31 of an owner with an expense on each of
\* the two days: one group holding both
C12_Witness ==
    /\ ret.op = "fetch_spending_summary"
    /\ ret.args.query = [start_date |-> <<2024, 3, 1>>,
                         end_date |-> <<2024, 3, 31>>]
    /\ Listed = <<[category |-> "Food", total_spent |-> 2450,
                   transaction_count |-> 2]>>

\* The expenses the list query's filters let through
Matching ==
    {r \in InRange : ret.args.query.category # None =>
                        r.category = ret.args.query.category}

\* C13: fetch_expenses returns rows of the owner that pass every filter given
\* (category equal, date within the inclusive bounds; an absent filter
\* excludes nothing), each once, latest date first, as many as match up to
\* limit; a matching row left out is dated no later than any returned one.
C13_FetchExpensesFilters ==
    ret.op = "fetch_expenses" =>
        /\ ret.exc = ""
        /\ \A i \in DOMAIN Listed : Listed[i] \in Matching
        /\ \A i, j \in DOMAIN Listed : i < j =>
                /\ Listed[i] # Listed[j]
                /\ DateLeq(Listed[j].date, Listed[i].date)
        /\ Len(Listed) = Min(ret.args.query.limit, Cardinality(Matching))
        /\ \A r \in Matching :
                (\A i \in DOMAIN Listed : Listed[i] # r) =>
                    \A i \in DOMAIN Listed : DateLeq(r.date, Listed[i].date)

\* A list query for food from March 1 to March 31 with limit 1, answered with
\* the expense of March 31 while the owner's expense of March 1 matches too
C13_Witness ==
    /\ ret.op = "fetch_expenses"
    /\ ret.args.query = [category |-> "Food", start_date |-> <<2024, 3, 1>>,
                         end_date |-> <<2024, 3, 31>>, limit |-> 1]
    /\ Len(Listed) = 1
    /\ Listed[1].date = <<2024, 3, 31>>
    /\ \E r \in Matching : r.date = <<2024, 3, 1>>

(***************************************************************************)
(* SpecUpdate: one expense input, updated with each kind of field set the  *)
(* update tool can build, deleted and looked up, with the clock running    *)
(***************************************************************************)
UpdateInputs ==
    {[title |-> "Coffee", amount |-> 450, category |-> "Food",
      date |-> <<2024, 3, 1>>, notes |-> "with milk"]}

\* Field sets over the columns of UpdateExpenseInput (<<>> is the empty one)
UpdateFields ==
    {<<>>,
     [amount |-> 2550],
     [title |-> "Lunch", category |-> "Travel", date |-> <<2024, 3, 2>>,
      notes |-> "on the train"]}

NextUpdate ==
    \/ CreateUser({"key-2"}, {now})
    \/ InsertExpense(OwnerIds, UpdateInputs, Clock)
    \/ UpdateExpense(OwnerIds, UpdateFields, Clock)
    \/ DeleteExpense(OwnerIds, {now})
    \/ FetchExpenseById(OwnerIds)
    \/ AuthenticateUser(ApiKeys \cup {"no-such-key"})

SpecUpdate == Init /\ [][NextUpdate]_vars

\* The row an update, delete or lookup addresses, before the call: the rows
\* with the id and the owner given
Addressed == {r \in expenses : /\ r.id = ret'.args.expense_id
                               /\ r.user_id = ret'.args.user_id}

\* C14: update_expense with fields, on an expense of the owner, gives the
\* addressed row the supplied values and a new updated_at, keeps its id,
\* user_id, created_at and every column not supplied, changes no other
\* expense row, and returns the row as stored.
C14_UpdateFrame ==
    [][(/\ ret'.op = "update_expense"
        /\ DOMAIN ret'.args.fields # {}
        /\ Addressed # {})
       => \E old \in Addressed, new \in expenses' :
            /\ Addressed = {old}
            /\ expenses' \ {new} = expenses \ {old}
            /\ DOMAIN new = DOMAIN old
            /\ \A k \in DOMAIN old :
                    new[k] = IF k = "updated_at" THEN now'
                             ELSE IF k \in DOMAIN ret'.args.fields
                                  THEN ret'.args.fields[k]
                             ELSE old[k]
            /\ ret'.exc = ""
            /\ ret'.val = new]_vars

\* An expense of the second owner, the younger of two rows, after an update of
\* its amount alone a second after it was inserted
C14_Witness ==
    /\ ret.op = "update_expense"
    /\ ret.args = [user_id |-> 2, expense_id |-> 2, fields |-> [amount |-> 2550]]
    /\ ret.val # NoRow
    /\ ret.val.title = "Coffee"
    /\ ret.val.amount = 2550
    /\ ret.val.created_at < ret.val.updated_at
    /\ Cardinality(expenses) = 2

\* C15: update_expense without fields changes no expense row, updated_at
\* included, and returns the addressed row of the owner as it is stored
\* (None when there is none).
C15_EmptyUpdateNoOp ==
    [][(ret'.op = "update_expense" /\ DOMAIN ret'.args.fields = {})
       => /\ expenses' = expenses
          /\ ret'.exc = ""
          /\ Addressed = {} => ret'.val = NoRow
          /\ \A r \in Addressed : ret'.val = r]_vars

\* An update without fields a second after the owner's row was last written:
\* the row comes back with the old updated_at
C15_Witness ==
    /\ ret.op = "update_expense"
    /\ ret.args.fields = <<>>
    /\ ret.val # NoRow
    /\ ret.val \in expenses
    /\ ret.val.user_id = ret.args.user_id
    /\ ret.val.updated_at < now

\* No expense row has the id of the call
NoSuchExpense == \A r \in expenses : r.id # ret'.args.expense_id

\* No user row has the key of the call
UnknownKey == \A u \in users : u.api_key # ret'.args.api_key

\* C16: for an expense id that does not exist fetch_expense_by_id and
\* update_expense return None and delete_expense returns False; for an
\* unknown key authenticate_user returns None; none of them raises and the
\* database is left as it was.
C16_NotFoundIsAValue ==
    [][/\ (/\ ret'.op \in {"fetch_expense_by_id", "update_expense"}
           /\ NoSuchExpense)
          => /\ ret'.exc = ""
             /\ ret'.val = NoRow
             /\ UNCHANGED <<users, expenses, budgets, seq>>
       /\ (ret'.op = "delete_expense" /\ NoSuchExpense)
          => /\ ret'.exc = ""
             /\ ret'.val = Bool(FALSE)
             /\ UNCHANGED <<users, expenses, budgets, seq>>
       /\ (ret'.op = "authenticate_user" /\ UnknownKey)
          => /\ ret'.exc = ""
             /\ ret'.val = NoRow
             /\ UNCHANGED <<users, expenses, budgets, seq>>]_vars

\* A delete of an id that was issued and deleted before, with another
\* expense still stored
C16_Witness ==
    /\ ret.op = "delete_expense"
    /\ ret.val = Bool(FALSE)
    /\ ret.args.expense_id <= seq.expenses
    /\ expenses # {}
    /\ \A r \in expenses : r.id # ret.args.expense_id

(***************************************************************************)
(* SpecErrors: SpecTools with the update_expense and delete_expense tools  *)
(***************************************************************************)
\* UpdateExpenseInput(...) validates
ValidUpdateExpense(input) ==
    /\ input.id > 0
    /\ "title" \in DOMAIN input.fields => input.fields.title # ""
    /\ "amount" \in DOMAIN input.fields => input.fields.amount > 0
    /\ "category" \in DOMAIN input.fields =>
            \E i \in 1..Len(CategoryOrder) :
                CategoryOrder[i] = input.fields.category
    /\ "date" \in DOMAIN input.fields => ValidDate(input.fields.date)

\* tools.expenses.update_expense.  db.fetch_expense_by_id(validated.id) binds
\* its one argument to user_id and stands outside every try; the call of
\* db.update_expense(validated.id, **fields) stands inside one.
tool_update_expense(d, input, t) ==
    IF ~ValidUpdateExpense(input)
    THEN Returns(d, [error |-> "Validation error"])
    ELSE LET args == [user_id |-> input.id]
         IN  IF MissingArgument("fetch_expense_by_id", args)
             THEN Raises(d, "TypeError")
             ELSE LET existing == fetch_expense_by_id(d, args.user_id,
                                                      args.expense_id)
                  IN  IF existing = NoRow
                      THEN Returns(d, [error |-> "not found"])
                      ELSE IF DOMAIN input.fields = {}
                      THEN Returns(d, [message |-> "No fields to update.",
                                       expense |-> existing])
                      ELSE IF MissingArgument("update_expense", args)
                      THEN Returns(d, [error |-> "Failed to update expense",
                                       cause |-> "TypeError"])
                      ELSE LET r == update_expense(d, args.user_id,
                                        args.expense_id, input.fields, t)
                           IN  Returns(r.db,
                                   [message |-> "Expense updated successfully.",
                                    expense |-> r.val])

\* tools.expenses.delete_expense; ctx says whether a Context came with the
\* call, answer what the user replied to the confirmation.  With a Context
\* db.fetch_expense_by_id(validated.id) is called outside every try; the call
\* of db.delete_expense(validated.id) stands inside one.
tool_delete_expense(d, id, ctx, answer) ==
    LET args == [user_id |-> id]
        delete == IF MissingArgument("delete_expense", args)
                  THEN Returns(d, [error |-> "Failed to delete expense",
                                   cause |-> "TypeError"])
                  ELSE LET r == delete_expense(d, args.user_id, args.expense_id)
                       IN  IF r.val = Bool(TRUE)
                           THEN Returns(r.db, [message |-> "deleted"])
                           ELSE Returns(r.db, [error |-> "not found"])
    IN  IF id <= 0
        THEN Returns(d, [error |-> "Validation error"])
        ELSE IF ~ctx THEN delete
        ELSE IF MissingArgument("fetch_expense_by_id", args)
        THEN Raises(d, "TypeError")
        ELSE IF fetch_expense_by_id(d, args.user_id, args.expense_id) = NoRow
        THEN Returns(d, [error |-> "not found"])
        ELSE IF answer # "yes"
        THEN Returns(d, [message |-> "Deletion cancelled by user."])
        ELSE delete

ToolUpdateExpense(I, T) ==
    \E i \in I, t \in T :
        Did("tools.update_expense", [input |-> i],
            tool_update_expense(DB, i, t), t)

ToolDeleteExpense(Ids, Ctx) ==
    \E id \in Ids, ctx \in Ctx, answer \in {"yes", "no"} :
        Did("tools.delete_expense",
            [id |-> id, ctx |-> ctx, answer |-> answer],
            tool_delete_expense(DB, id, ctx, answer), now)

ToolUpdates ==
    {[id |-> id, fields |-> f] :
        id \in 0..1, f \in {<<>>, [amount |-> 2550], [amount |-> 0]}}

NextErrors ==
    \/ MainStart
    \/ AddExpense(ToolInputs, Clock)
    \/ GetExpenses(ToolQueries)
    \/ InsertExpense(OwnerIds, CrudInputs, Clock)
    \/ ToolUpdateExpense(ToolUpdates, Clock)
    \/ ToolDeleteExpense(0..1, BOOLEAN)

SpecErrors == Init /\ [][NextErrors]_vars

\* C17: no tool lets an exception of a database-layer call reach its caller:
\* every tool call returns, and returns a mapping with an "error" entry when
\* its database-layer call raised.
C17_ErrorsAreResults ==
    ret.op \in {"add_expense", "get_expenses", "tools.update_expense",
                "tools.delete_expense"}
        => /\ ret.exc = ""
           /\ "cause" \in DOMAIN ret.val => "error" \in DOMAIN ret.val

(***************************************************************************)
(* SpecPool: the operations of the database layer taking connections, as   *)
(* concurrent tasks on one event loop.  An operation takes its connections *)
(* one after the other; while it holds one it is at "query", and while it  *)
(* waits for one it is at "acquire".                                       *)
(***************************************************************************)
maxsize == 5

PoolOps == 1..MaxOps

\* How an operation lets go of each connection it takes, in order.
\* _fetchall, _fetchone and _execute (kind "_execute") take one inside
\* `async with`.  init_db with MySQL takes one from the pool for the tables
\* and _ensure_user_id_columns takes another, each let go by conn.close() in
\* a finally, and then _ensure_default_user calls _fetchall; with SQLite
\* init_db opens one inside `async with` and then calls _fetchall.
Segments(kind, mysql) ==
    IF kind = "init_db"
    THEN IF mysql THEN <<"close", "close", "with">> ELSE <<"with", "with">>
    ELSE <<"with">>

\* `async with pool.acquire()` ends in pool.release(conn), which takes conn
\* out of the connections the pool counts as used, and `async with` on a
\* file connection closes it; conn.close() on a connection of the pool
\* closes the socket and tells the pool nothing
LetGo(how, c, used) == IF how = "with" THEN used \ {c} ELSE used

\* pool.acquire() hands out a connection while free + used is below maxsize
\* (no connection is kept free here: one let go is handed out again)
PoolHasRoomAlways(used) == TRUE

PoolHasRoom(used) == Cardinality(used) < maxsize

\* The connections counted as in use whose operation has left the block that
\* took them
Leaked == {c \in inUse : ~(/\ ops[c[1]].pc = "query"
                           /\ ops[c[1]].seg = c[2])}

PoolStep(p, o, used) ==
    /\ ops' = [ops EXCEPT ![p] = o]
    /\ inUse' = used
    /\ UNCHANGED <<dbvars, now, ret, isovars, concvars, toolvars, USE_MYSQL,
                   schema, environ, _pool, pools>>

\* an operation is called; init_db is what startup runs, once
OpCall(p) ==
    \E kind \in {"_execute"} \cup (IF p = 1 THEN {"init_db"} ELSE {}) :
        /\ ops[p].pc = "idle"
        /\ PoolStep(p, [pc |-> "acquire", kind |-> kind, seg |-> 1], inUse)

\* pool.acquire() returns (with MySQL the caller is suspended until the pool
\* has room), or the file is opened
OpAcquire(p) ==
    /\ ops[p].pc = "acquire"
    /\ USE_MYSQL => PoolHasRoom(inUse)
    /\ PoolStep(p, [ops[p] EXCEPT !.pc = "query"], inUse \cup {<<p, ops[p].seg>>})

\* the statements on the connection return or raise, and control leaves the
\* block; an operation that raised ends
OpLeave(p, raised) ==
    /\ ops[p].pc = "query"
    /\ LET o == ops[p]
           segs == Segments(o.kind, USE_MYSQL)
       IN  PoolStep(p, IF raised \/ o.seg = Len(segs)
                       THEN [pc |-> "done"]
                       ELSE [o EXCEPT !.pc = "acquire", !.seg = @ + 1],
                    LetGo(segs[o.seg], <<p, o.seg>>, inUse))

\* A process that starts on an initialised database, with either engine
InitPool ==
    /\ users = {[id |-> 1, name |-> "Default User", email |-> "local@localhost",
                 api_key |-> DEFAULT_API_KEY, created_at |-> 0]}
    /\ expenses = {}
    /\ budgets = {}
    /\ seq = [users |-> 1, expenses |-> 0, budgets |-> 0]
    /\ now = 0
    /\ ret = [op |-> "init_db", args |-> <<>>, exc |-> "", val |-> NoRow]
    /\ solo = [expenses |-> {}, budgets |-> {},
               seq |-> [expenses |-> 0, budgets |-> 0]]
    /\ soloId = <<>>
    /\ calls = [p \in 1..MaxCalls |-> [pc |-> "idle"]]
    /\ lastCommit = <<>>
    /\ main = "not started"
    /\ _DEFAULT_USER_ID = 1
    /\ USE_MYSQL \in BOOLEAN
    /\ environ = EnvironOf(USE_MYSQL)
    /\ schema = Initialised
    /\ inUse = {}
    /\ ops = [p \in PoolOps |-> [pc |-> "idle"]]
    /\ _pool = NoPool
    /\ pools = {}

NextPool ==
    \E p \in PoolOps :
        \/ OpCall(p)
        \/ OpAcquire(p)
        \/ \E raised \in BOOLEAN : OpLeave(p, raised)

SpecPool == InitPool /\ [][NextPool]_vars

\* The event loop resumes every task that can run, and the engine answers
\* every statement
SpecPoolFair ==
    /\ SpecPool
    /\ \A p \in PoolOps :
            /\ WF_vars(OpAcquire(p))
            /\ WF_vars(\E raised \in BOOLEAN : OpLeave(p, raised))

\* C18: every connection counted as in use is held by an operation that is
\* inside the block that took it; so each is released on every way out of
\* that block, and none is in use once every operation has finished.
C18_ScopedAcquisition == Leaked = {}

NoTables ==
    [tables |-> {}, user_id |-> {}, fks |-> [expenses |-> 0, budgets |-> 0]]

\* expenses and budgets as they were before there were users
SingleUserTables ==
    [tables |-> {"expenses", "budgets"}, user_id |-> {},
     fks |-> [expenses |-> 0, budgets |-> 0]]

\* A row of each of those tables: no user_id column
SingleUserExpense ==
    [id |-> 1, title |-> "Coffee", amount |-> 450, category |-> "Food",
     date |-> <<2024, 3, 1>>, notes |-> None, created_at |-> 0,
     updated_at |-> 0]

SingleUserBudget ==
    [id |-> 1, category |-> "Food", limit_amount |-> 3000, month |-> 3,
     year |-> 2024]

\* CREATE TABLE IF NOT EXISTS users / expenses / budgets: a table that exists
\* is left as it is, a new one has the user_id column and its foreign key
CreateTables(sch) ==
    LET new == {"expenses", "budgets"} \ sch.tables
    IN  [tables |-> {"users", "expenses", "budgets"},
         user_id |-> sch.user_id \cup new,
         fks |-> [tb \in {"expenses", "budgets"} |->
                    IF tb \in new THEN 1 ELSE sch.fks[tb]]]

\* ALTER TABLE tb ADD COLUMN user_id INT NOT NULL DEFAULT 1: every row of
\* the table gets user_id 1
AddUserIdColumn(rows) ==
    {[k \in DOMAIN r \cup {"user_id"} |-> IF k = "user_id" THEN 1 ELSE r[k]] :
        r \in rows}

\* One table of _ensure_user_id_columns, after what came before it (st):
\* if the table has no user_id column (count == 0; always, when counted is
\* FALSE) the column is added and then the foreign key, which the engine
\* refuses when a row of the table names a user that does not exist.  Each
\* ALTER TABLE commits by itself.
MigrateTable(st, tb, counted) ==
    IF st.exc # "" \/ (counted /\ tb \in st.schema.user_id) THEN st
    ELSE LET rows == AddUserIdColumn(st.db[tb])
             withColumn == [st.schema EXCEPT !.user_id = @ \cup {tb}]
         IN  IF \E r \in rows : r.user_id \notin UserIds(st.db)
             THEN [db |-> [st.db EXCEPT ![tb] = rows], schema |-> withColumn,
                   exc |-> "IntegrityError"]
             ELSE [db |-> [st.db EXCEPT ![tb] = rows],
                   schema |-> [withColumn EXCEPT !.fks[tb] = @ + 1],
                   exc |-> ""]

\* _ensure_user_id_columns adding the column and the key without counting
\* the columns first
_ensure_user_id_columns_uncounted(d, sch, mysql) ==
    LET st == [db |-> d, schema |-> sch, exc |-> ""]
    IN  IF ~mysql THEN st
        ELSE MigrateTable(MigrateTable(st, "expenses", FALSE), "budgets", FALSE)

\* for table in ("expenses", "budgets"): if count == 0: ALTER TABLE ... ADD
\* COLUMN user_id, ALTER TABLE ... ADD FOREIGN KEY
_ensure_user_id_columns(d, sch, mysql) ==
    LET st == [db |-> d, schema |-> sch, exc |-> ""]
    IN  IF ~mysql THEN st
        ELSE MigrateTable(MigrateTable(st, "expenses", TRUE), "budgets", TRUE)

\* if not users: create_user("Default User", "local@localhost", default_key)
_ensure_default_user(d, t) ==
    IF d.users = {}
    THEN create_user(d, "Default User", "local@localhost", DEFAULT_API_KEY, t)
    ELSE Returns(d, NoRow)

\* the tables, then _ensure_user_id_columns, then _ensure_default_user; what
\* one of them raises ends init_db
init_db(d, sch, mysql, t) ==
    LET m == _ensure_user_id_columns(d, CreateTables(sch), mysql)
        r == _ensure_default_user(m.db, t)
    IN  IF m.exc # "" THEN m
        ELSE [db |-> r.db, schema |-> m.schema, exc |-> r.exc]

\* With MySQL init_db takes two connections of the pool that it closes and
\* does not release, and then one more for _ensure_default_user: it returns
\* when the pool has room for the three
InitDbTakes(used, mysql) ==
    IF mysql THEN {<<0, Cardinality(used) + 1>>, <<0, Cardinality(used) + 2>>}
    ELSE {}

InitDb(T) ==
    \E t \in T :
        LET res == init_db(DB, schema, USE_MYSQL, t)
            taken == InitDbTakes(inUse, USE_MYSQL)
        IN  /\ USE_MYSQL => PoolHasRoom(inUse \cup taken)
            /\ Commit(res)
            /\ schema' = res.schema
            /\ inUse' = inUse \cup taken
            /\ now' = t
            /\ ret' = [op |-> "init_db", args |-> <<>>, exc |-> res.exc,
                       val |-> NoRow]
            /\ UNCHANGED <<isovars, concvars, toolvars, USE_MYSQL, ops, environ,
                           _pool, pools>>

InitStartup ==
    /\ users = {}
    /\ now = 0
    /\ ret = [op |-> "", args |-> <<>>, exc |-> "", val |-> NoRow]
    /\ solo = [expenses |-> {}, budgets |-> {},
               seq |-> [expenses |-> 0, budgets |-> 0]]
    /\ soloId = <<>>
    /\ calls = [p \in 1..MaxCalls |-> [pc |-> "idle"]]
    /\ lastCommit = <<>>
    /\ main = "not started"
    /\ _DEFAULT_USER_ID = 1
    /\ USE_MYSQL \in BOOLEAN
    /\ environ = EnvironOf(USE_MYSQL)
    /\ schema \in {NoTables, SingleUserTables}
    /\ expenses \in IF schema = NoTables THEN {{}} ELSE {{}, {SingleUserExpense}}
    /\ budgets \in IF schema = NoTables THEN {{}} ELSE {{}, {SingleUserBudget}}
    /\ seq = [users |-> 0, expenses |-> Cardinality(expenses),
              budgets |-> Cardinality(budgets)]
    /\ inUse = {}
    /\ ops = [p \in PoolOps |-> [pc |-> "idle"]]
    /\ _pool = NoPool
    /\ pools = {}

StartupBudgets ==
    {[category |-> "Food", limit_amount |-> 3000, month |-> 3, year |-> 2024]}

NextStartup ==
    \/ InitDb({now})
    \/ schema = Initialised /\ CreateUser({"key-2"}, {now})
    \/ schema = Initialised /\ InsertExpense(OwnerIds, UpdateInputs, {now})
    \/ schema = Initialised /\ UpsertBudget(OwnerIds, StartupBudgets, {now})

SpecStartup == InitStartup /\ [][NextStartup]_vars

\* C20: init_db on a database that init_db has initialised before (its last
\* step left a user) changes neither
\* the schema (no column, no constraint) nor any user, expense or budget
\* row, and raises nothing; init_db on a database without tables leaves
\* exactly one user, the default one.
C20_StartupIdempotent ==
    [][ret'.op = "init_db"
       => /\ users # {}
             => /\ UNCHANGED <<users, expenses, budgets, seq, schema>>
                /\ ret'.exc = ""
          /\ schema = NoTables
             => /\ schema' = Initialised
                /\ users' = {[id |-> 1, name |-> "Default User",
                              email |-> "local@localhost",
                              api_key |-> DEFAULT_API_KEY,
                              created_at |-> now']}
                /\ ret'.exc = ""]_vars

\* init_db has just run with MySQL on a database that holds a second user,
\* an expense and a budget
C20_Witness ==
    /\ ret.op = "init_db"
    /\ USE_MYSQL
    /\ Cardinality(users) = 2
    /\ expenses # {}
    /\ budgets # {}

(***************************************************************************)
(* SpecBackend: db.database imported under some environment, the           *)
(* environment changing afterwards, and init_db run.                       *)
(***************************************************************************)
Backends ==
    {<<>>, <<"m", "y", "s", "q", "l">>, <<"M", "y", "S", "Q", "L">>,
     <<"M", "Y", "S", "Q", "L">>, <<"s", "q", "l", "i", "t", "e">>,
     <<"S", "Q", "L", "i", "t", "e">>, <<"m", "y", "s", "q", "l", "2">>,
     <<"p", "g">>}

Passwords == {<<>>, <<"p", "w">>}

Environs ==
    {<<>>}
    \cup {[DB_BACKEND |-> b] : b \in Backends}
    \cup {[MYSQL_PASSWORD |-> w] : w \in Passwords}
    \cup {[DB_BACKEND |-> b, MYSQL_PASSWORD |-> w] :
            b \in Backends, w \in Passwords}

\* os.environ is assigned to after the import
SetEnviron ==
    \E e \in Environs :
        /\ environ' = e
        /\ UNCHANGED <<dbvars, now, ret, isovars, concvars, toolvars,
                       USE_MYSQL, schema, inUse, ops, _pool, pools>>

\* import db.database: USE_MYSQL = _use_mysql()
InitBackend ==
    /\ users = {}
    /\ expenses = {}
    /\ budgets = {}
    /\ seq = [users |-> 0, expenses |-> 0, budgets |-> 0]
    /\ now = 0
    /\ ret = [op |-> "", args |-> <<>>, exc |-> "", val |-> NoRow]
    /\ solo = [expenses |-> {}, budgets |-> {},
               seq |-> [expenses |-> 0, budgets |-> 0]]
    /\ soloId = <<>>
    /\ calls = [p \in 1..MaxCalls |-> [pc |-> "idle"]]
    /\ lastCommit = <<>>
    /\ main = "not started"
    /\ _DEFAULT_USER_ID = 1
    /\ environ \in Environs
    /\ USE_MYSQL = _use_mysql(environ)
    /\ schema = NoTables
    /\ inUse = {}
    /\ ops = [p \in PoolOps |-> [pc |-> "idle"]]
    /\ _pool = NoPool
    /\ pools = {}

NextBackend ==
    \/ SetEnviron
    \/ InitDb({now})

SpecBackend == InitBackend /\ [][NextBackend]_vars

\* The same text but for the case of its letters
SameButCase(a, b) ==
    /\ Len(a) = Len(b)
    /\ \A i \in 1..Len(a) :
            \/ a[i] = b[i]
            \/ \E k \in DOMAIN UpperCase :
                    {a[i], b[i]} = {UpperCase[k], LowerCase[k]}

\* C21: at import DB_BACKEND = "mysql" in any case selects MySQL, "sqlite"
\* in any case selects SQLite whatever the password, and otherwise MySQL is
\* selected exactly when MYSQL_PASSWORD is set and not empty; the engine
\* selected never changes afterwards.
C21_BackendSelection ==
    /\ LET b == IF "DB_BACKEND" \in DOMAIN environ
                THEN environ.DB_BACKEND ELSE <<>>
       IN  USE_MYSQL =
               IF SameButCase(b, <<"m", "y", "s", "q", "l">>) THEN TRUE
               ELSE IF SameButCase(b, <<"s", "q", "l", "i", "t", "e">>)
                    THEN FALSE
               ELSE /\ "MYSQL_PASSWORD" \in DOMAIN environ
                    /\ Len(environ.MYSQL_PASSWORD) > 0
    /\ [][USE_MYSQL' = USE_MYSQL]_vars

\* init_db has run on MySQL, selected at import, after the
\* environment was changed to name SQLite
C21_Witness ==
    /\ USE_MYSQL
    /\ ret.op = "init_db"
    /\ schema = Initialised
    /\ environ = [DB_BACKEND |-> <<"s", "q", "l", "i", "t", "e">>]

(***************************************************************************)
(* SpecCategories: expenses of three categories stored, re-categorised and *)
(* deleted, and the categories of an owner listed                          *)
(***************************************************************************)
FetchAllCategories(U) ==
    \E u \in U :
        Did("fetch_all_categories", [user_id |-> u],
            Returns(DB, List(fetch_all_categories(DB, u))), now)

CategoryInputs ==
    {[title |-> "Coffee", amount |-> 450, category |-> "Food",
      date |-> <<2024, 3, 1>>, notes |-> None],
     [title |-> "Taxi", amount |-> 2000, category |-> "Travel",
      date |-> <<2024, 3, 1>>, notes |-> None],
     [title |-> "Rent", amount |-> 90000, category |-> "Bills",
      date |-> <<2024, 3, 1>>, notes |-> None]}

CategoryUpdates == {[category |-> "Bills"]}

NextCategories ==
    \/ CreateUser({"key-2"}, {now})
    \/ InsertExpense(OwnerIds, CategoryInputs, {now})
    \/ UpdateExpense(OwnerIds, CategoryUpdates, {now})
    \/ DeleteExpense(OwnerIds, {now})
    \/ FetchAllCategories(OwnerIds)

SpecCategories == Init /\ [][NextCategories]_vars

\* The alphabet's order on the category names stored here
Alphabetical ==
    {<<"Bills", "Food">>, <<"Bills", "Travel">>, <<"Food", "Travel">>}

\* C22: fetch_all_categories returns, ascending and without duplicates,
\* exactly the categories that occur in the owner's expense rows as they
\* are now, the empty list when there are none, and raises nothing.
C22_CategoriesPresent ==
    ret.op = "fetch_all_categories" =>
        LET s == ret.val.list
        IN  /\ ret.exc = ""
            /\ {s[i] : i \in 1..Len(s)} =
                    {r.category : r \in {x \in expenses :
                                            x.user_id = ret.args.user_id}}
            /\ \A i, j \in 1..Len(s) : i < j => <<s[i], s[j]>> \in Alphabetical

\* Of two expenses stored one was deleted and the owner's Food one was made
\* a Bills one: the list is Bills alone
C22_Witness ==
    /\ ret.op = "fetch_all_categories"
    /\ ret.val.list = <<"Bills">>
    /\ seq.expenses > Cardinality(expenses)
    /\ \E r \in expenses : /\ r.user_id = ret.args.user_id
                           /\ r.title = "Coffee"
                           /\ r.category = "Bills"

(***************************************************************************)
(* SpecIntegrity: expenses and budgets stored for owners that exist and    *)
(* for one that does not exist yet                                         *)
(***************************************************************************)
IntegrityBudgets ==
    {[category |-> "Food", limit_amount |-> l, month |-> 3, year |-> 2024] :
        l \in {3000, 10000}}

NextIntegrity ==
    \/ CreateUser({"key-2"}, {now})
    \/ InsertExpense(OwnerIds, UpdateInputs, {now})
    \/ UpdateExpense(OwnerIds, CategoryUpdates, {now})
    \/ DeleteExpense(OwnerIds, {now})
    \/ UpsertBudget(OwnerIds, IntegrityBudgets, {now})

SpecIntegrity == Init /\ [][NextIntegrity]_vars

_elicit_missing_fields(input, answers, today) ==
    LET accepted(f) == answers[f].action = "accept"
    IN  [title |-> IF input.title \in {None, ""} /\ accepted("title")
                   THEN answers.title.data ELSE input.title,
         amount |-> IF input.amount = 0 /\ accepted("amount")
                    THEN answers.amount.data ELSE input.amount,
         category |-> IF input.category \in {None, ""} /\ accepted("category")
                      THEN answers.category.data ELSE input.category,
         date |-> IF input.date # NoDate THEN input.date
                  ELSE IF accepted("date") /\ answers.date.data # NoDate
                       THEN answers.date.data
                  ELSE today,
         notes |-> input.notes]

\* add_expense called with a Context
AddExpenseElicited(E, Ans, T) ==
    \E e \in E, a \in Ans, t \in T :
        /\ seq.expenses < MaxExpenses
        /\ Did("add_expense", [input |-> e, ctx |-> TRUE, answers |-> a],
               add_expense(DB, _elicit_missing_fields(e, a, <<2024, 3, 1>>), t),
               t)

AmountInputs ==
    {[title |-> "Coffee", amount |-> a, category |-> "Food",
      date |-> <<2024, 3, 1>>, notes |-> ""] : a \in {450, 0, -100}}

\* What the user answers to the prompts; only the amount is ever asked for
AmountAnswers ==
    {[title |-> [action |-> "decline", data |-> ""],
      amount |-> [action |-> act, data |-> a],
      category |-> [action |-> "decline", data |-> ""],
      date |-> [action |-> "decline", data |-> NoDate]] :
        act \in {"accept", "decline"}, a \in {450, 0, -100}}

NextAmounts ==
    \/ InsertExpense({1}, CrudInputs, Clock)
    \/ AddExpense(AmountInputs, Clock)
    \/ AddExpenseElicited(AmountInputs, AmountAnswers, Clock)
    \/ ToolUpdateExpense(ToolUpdates, Clock)

SpecAmounts == Init /\ [][NextAmounts]_vars

\* The amount a tool call carries, if it carries one that is not positive
CarriesNonPositive(r) ==
    \/ r.op = "add_expense" /\ r.args.input.amount <= 0
    \/ /\ r.op = "tools.update_expense"
       /\ "amount" \in DOMAIN r.args.input.fields
       /\ r.args.input.fields.amount <= 0

RejectedAsInvalid(r) ==
    /\ r.exc = ""
    /\ "error" \in DOMAIN r.val
    /\ r.val.error = "Validation error"

\* add_expense was called with a Context and an amount of 0, and the user
\* accepted the prompt for the amount
AmountElicited(r) ==
    /\ r.op = "add_expense"
    /\ "ctx" \in DOMAIN r.args
    /\ r.args.input.amount = 0
    /\ r.args.answers.amount.action = "accept"

\* C24 as stated: every stored expense has amount > 0, and every tool call
\* that carries a non-positive amount returns a validation error
C24_NonPositiveRejected ==
    /\ \A r \in expenses : r.amount > 0
    /\ CarriesNonPositive(ret) => RejectedAsInvalid(ret)

\* C24: every stored expense has amount > 0; a tool call that carries a
\* non-positive amount returns a validation error and changes no stored row,
\* except that add_expense with a Context takes an amount of 0 for missing
\* and validates the amount the user accepts in its place.
C24_NonPositiveRejectedOrElicited ==
    /\ [](\A r \in expenses : r.amount > 0)
    /\ [][/\ (CarriesNonPositive(ret') /\ ~AmountElicited(ret'))
             => RejectedAsInvalid(ret') /\ expenses' = expenses
          /\ (AmountElicited(ret') /\ ret'.args.answers.amount.data <= 0)
             => RejectedAsInvalid(ret') /\ expenses' = expenses]_vars

\* add_expense with a Context and amount 0 was answered with -1.00 and
\* refused, with an expense stored
C24_Witness ==
    /\ AmountElicited(ret)
    /\ ret.args.answers.amount.data = -100
    /\ RejectedAsInvalid(ret)
    /\ expenses # {}

(***************************************************************************)
(* More of SpecErrors                                                      *)
(***************************************************************************)
\* C25: delete_expense called with a Context raises nothing; when the user
\* does not answer "yes" the row is still stored and the cancellation
\* message is returned, and for an id without a row the not-found error is
\* returned.
C25_DeleteOnlyConfirmed ==
    (/\ ret.op = "tools.delete_expense"
     /\ ret.args.ctx
     /\ ret.args.id > 0)
    => /\ ret.exc = ""
       /\ (\A r \in expenses : r.id # ret.args.id)
            => /\ "error" \in DOMAIN ret.val
               /\ ret.val.error = "not found"
       /\ (ret.args.answer # "yes" /\ \E r \in expenses : r.id = ret.args.id)
            => /\ "message" \in DOMAIN ret.val
               /\ ret.val.message = "Deletion cancelled by user."

(***************************************************************************)
(* SpecSwitch: switch_user of main.py called, next to main.py starting and *)
(* users being registered through the database layer                       *)
(***************************************************************************)
\* Every name main.py imports from its modules is defined there
MainImportsResolve ==
    \A m \in DOMAIN MainImports : MainImports[m] \subseteq ModuleNames[m]

\* main.switch_user, reached through the module main: importing main runs
\* its import statements first.  active is the user id the modules hold.
switch_user(d, active, api_key) ==
    IF ~MainImportsResolve
    THEN [db |-> d, exc |-> "ImportError", val |-> NoRow, active |-> active]
    ELSE LET user == authenticate_user(d, api_key)
         IN  IF user = NoRow
             THEN [db |-> d, exc |-> "", active |-> active,
                   val |-> [error |-> "Invalid API key."]]
             ELSE [db |-> d, exc |-> "", active |-> user.id,
                   val |-> [message |-> "Switched", user |-> user.id]]

SwitchUser(K) ==
    \E k \in K :
        LET res == switch_user(DB, _DEFAULT_USER_ID, k)
        IN  /\ Call("switch_user", [api_key |-> k], res, now)
            /\ _DEFAULT_USER_ID' = res.active
            /\ UNCHANGED <<main, isovars, concvars, poolvars>>

NextSwitch ==
    \/ MainStart
    \/ CreateUser({"key-2"}, Clock)
    \/ InsertExpense(OwnerIds, CrudInputs, Clock)
    \/ SwitchUser(ApiKeys \cup {"no-such-key"})

SpecSwitch == Init /\ [][NextSwitch]_vars

\* C26: switch_user raises nothing; with a key of no user it returns an
\* error, and with a user's key the active user of the modules is that
\* user when it returns.
C26_SwitchUser ==
    ret.op = "switch_user"
    => /\ ret.exc = ""
       /\ (\A u \in users : u.api_key # ret.args.api_key)
            => "error" \in DOMAIN ret.val
       /\ \A u \in users :
            u.api_key = ret.args.api_key => _DEFAULT_USER_ID = u.id

(***************************************************************************)
(* More of SpecStartup                                                     *)
(***************************************************************************)
\* C27: with MySQL init_db raises nothing, and when it has returned every
\* expense and budget row, those of the single-user tables included, has
\* the user_id of an existing user, and both tables have their foreign key.
C27_MigrationOrdering ==
    (ret.op = "init_db" /\ USE_MYSQL)
    => /\ ret.exc = ""
       /\ \A r \in expenses \cup budgets :
            /\ "user_id" \in DOMAIN r
            /\ \E u \in users : u.id = r.user_id
       /\ schema.fks = [expenses |-> 1, budgets |-> 1]

(***************************************************************************)
(* SpecGetPool: operations calling _get_pool as concurrent tasks of one    *)
(* event loop, with MySQL.  A task runs from one await to the next without *)
(* another task running in between.                                        *)
(***************************************************************************)
Getters == 1..MaxGetters

GetPoolStep(p, o, pool, open) ==
    /\ ops' = [ops EXCEPT ![p] = o]
    /\ _pool' = pool
    /\ pools' = open
    /\ UNCHANGED <<dbvars, now, ret, isovars, concvars, toolvars, USE_MYSQL,
                   schema, inUse, environ>>

\* _get_pool is called: `if _pool is None or _pool.closed`, and then either
\* `return _pool` or the await of aiomysql.create_pool(...)
GetPoolCall(p) ==
    /\ ops[p].pc = "idle"
    /\ IF _pool = NoPool \/ _pool \notin pools
       THEN GetPoolStep(p, [pc |-> "create_pool"], _pool, pools)
       ELSE GetPoolStep(p, [pc |-> "has pool", pool |-> _pool], _pool, pools)

\* create_pool returns a new pool: `_pool = ...; return _pool`
GetPoolCreated(p) ==
    /\ ops[p].pc = "create_pool"
    /\ LET new == Cardinality(pools) + 1
       IN  GetPoolStep(p, [pc |-> "has pool", pool |-> new], new,
                       pools \cup {new})

InitGetPool == InitPool /\ USE_MYSQL

NextGetPool ==
    \E p \in Getters :
        \/ GetPoolCall(p)
        \/ GetPoolCreated(p)

SpecGetPool == InitGetPool /\ [][NextGetPool]_vars

\* C28: at most one pool has been created, and every operation that has
\* obtained a pool has the one _pool refers to.
C28_OnePool ==
    /\ Cardinality(pools) <= 1
    /\ \A p \in Getters : ops[p].pc = "has pool" => ops[p].pool = _pool

(***************************************************************************)
(* More of SpecConc: what an upsert_budget call returns when other calls   *)
(* for the same key run between its write and its read-back.               *)
(***************************************************************************)
\* C29 as stated: upsert_budget returns the row of the requested key, never
\* an empty mapping, and the returned limit_amount equals the limit passed to
\* that call, even when other upsert_budget calls for the same key interleave
\* between its write and its read-back.
C29_ReturnsOwnLimit ==
    ret.op = "upsert_budget" =>
        /\ DOMAIN ret.val # {}
        /\ SameBudgetKey(ret.val, ret.args.user_id, ret.args.input.category,
                         ret.args.input.month, ret.args.input.year)
        /\ ret.val.limit_amount = ret.args.input.limit_amount

\* C29 (amended): upsert_budget returns the row of the requested key, never
\* an empty mapping, and the returned limit_amount is the limit of the upsert
\* that committed last for that key before the read-back: the limit passed to
\* the call unless another upsert_budget call for the same key committed
\* between its write and its read-back.
C29_ReturnsLastCommitted ==
    [][\A p \in Tasks :
            (calls[p].pc = "select" /\ calls'[p].pc = "idle") =>
                /\ ret'.op = "upsert_budget"
                /\ DOMAIN ret'.val # {}
                /\ SameBudgetKey(ret'.val, calls[p].user_id,
                                 calls[p].input.category, calls[p].input.month,
                                 calls[p].input.year)
                /\ KeyOf(calls[p]) \in DOMAIN lastCommit
                /\ ret'.val.limit_amount = lastCommit[KeyOf(calls[p])]]_vars

\* A call that passed 30.00 has returned the row of its key with the 100.00
\* another call committed for that key after its write
C29_Witness ==
    /\ ret.op = "upsert_budget"
    /\ ret.args.input.limit_amount = 3000
    /\ DOMAIN ret.val # {}
    /\ ret.val.category = ret.args.input.category
    /\ ret.val.limit_amount = 10000
====
